---- MODULE Spec2Model ----
(***************************************************************************)
(* Attention scorer of the writing study (useWritingAttention, the first   *)
(* definition in src/unnamed/part_003, lines 65-194).                      *)
(*                                                                         *)
(* Time is in milliseconds and advances in steps of TickMs.  Scores are    *)
(* fixed-point per-mille values: the real score x is held as               *)
(* floor(Scale * x).  Every threshold used below (200, 280, 350, 430, 500) *)
(* differs from every attainable floor value of an irrational score, so    *)
(* the comparisons  s < threshold  and  s > threshold  give the same       *)
(* answers on the fixed-point values as on the reals.                      *)
(*                                                                         *)
(* Compliance guard (useComplianceGuard, src/unnamed/part_002): its        *)
(* variables follow those of the scorer; SpecGuard is its specification.   *)
(* The two hooks share no state, so each specification holds the other     *)
(* hook's variables at their initial values.                               *)
(*                                                                         *)
(* Orchestrator (StudyApp, src/website/src/App.tsx) with the gate of each  *)
(* study step (ComplianceGate.tsx): SpecStudy.  The wake lock and the      *)
(* unmount cleanup of useComplianceGuard: SpecWake.                        *)
(*                                                                         *)
(* The older useWritingAttention of part_003: SpecOld.  The snapshot       *)
(* queue, EditorView and the boot of StudyApp (App.tsx): SpecSnapshot,     *)
(* SpecEditor and SpecBoot.                                                *)
(***************************************************************************)
EXTENDS Integers, Sequences, FiniteSets, TLC

VARIABLES
    opts,             \* the AttnOpts the hook was called with
    enabled,          \* the hook's `enabled` argument (step === 3 || step === 4)
    now,              \* performance.now()
    lastActRef,       \* lastActRef.current
    lastNudgeRef,     \* lastNudgeRef.current
    nudgesRef,        \* nudgesRef.current
    armedFinalRef,    \* armedFinalRef.current
    hysteresisOkRef,  \* hysteresisOkRef.current
    score,            \* useState score
    showNudge,        \* useState showNudge
    nudges,           \* useState nudges
    showFinalWarning, \* useState showFinalWarning
    finalStrike,      \* useState finalStrike
    worstScore,       \* useState worstScore
    loopFinalStrike,  \* value of `finalStrike` captured by the closure of loop
    hideTimer,        \* a setTimeout(() => setShowNudge(false), 2500) is pending
    framePending,     \* no frame has run since the last clock step or event
    \* history variables (observations, not program state)
    lastOp,           \* the operation that produced this state
    frameNo,          \* frames evaluated since the phase was enabled (capped at 2)
    strikeEmits,      \* executions of the strike emission in the current or last phase
    lastEmit,         \* time of the last nudge emission of this phase, -1 if none
    minNudgeGap,      \* least time between two consecutive nudge emissions of this phase
    armCount,         \* times the final warning went from unarmed to armed
    recoveredAfterArm, \* a frame later than the arming frame saw s > finalThreshold + 0.08
    \* useComplianceGuard
    requireFullscreen, \* opts.requireFullscreen ?? true
    visible,           \* document.visibilityState === "visible"
    focused,           \* document.hasFocus()
    fullscreenElement, \* !!document.fullscreenElement
    needsAttention,    \* useState needsAttention
    violations,        \* useState violations
    escapeCount,       \* escapeRef.current.count
    escapeLeft,        \* ms until escapeRef.current.timer fires, -1 if no timer is pending
    suppressedRef,     \* suppressedRef.current
    resumePc,          \* position of the running resume(): "idle", "fs", "wake" or "raf"
    fsEventPending,    \* a fullscreenchange event caused by resume() awaits dispatch
    \* history variables of the guard
    called,            \* the callback the last step invoked: "none", "onViolation", "onResume"
    lossCount,         \* transitions of the predicate from compliant to non-compliant
    pressAges,         \* ages in ms of the last five Ctrl+Shift+E key-downs, newest first
    \* StudyApp
    step,              \* useState step: "1" .. "5", "4.1" is the completion screen
    totalViolations,   \* useState totalViolations
    blocked,           \* useState blocked, "none" for null
    bannedForStrikeRef,     \* bannedForStrikeRef.current
    bannedForViolationsRef, \* bannedForViolationsRef.current
    \* history variables of the orchestrator
    strikeBans,        \* calls of banParticipant by the finalStrike effect
    violationBans,     \* calls of banParticipant by the totalViolations effect
    recorded,          \* violations recorded by the guards of all views so far
    submitted,         \* onFinishSurvey inserted a submission
    \* lifetime and wake lock of a useComplianceGuard instance
    guardMounted,      \* the instance is mounted
    wakeLockRef,       \* wakeLockRef.current: a sentinel id, 0 for null
    heldLocks,         \* sentinels granted by the browser and not released
    wakeRequests,      \* navigator.wakeLock.request() calls not yet settled
    wakeReleases,      \* releaseWakeLock() calls awaiting release()
    issued,            \* sentinels granted so far
    \* the older useWritingAttention (second definition in part_003)
    loopState,         \* the state values captured by the closure of its loop
    \* snapshot queue (App.tsx, module level)
    snapshotBuffer,    \* snapshotBuffer: the ids of the queued snapshots
    flushTimer,        \* flushTimer: a timer handle, 0 for undefined
    pendingTimers,     \* handles of the flush timers set and neither fired nor cleared
    insertCalls,       \* the batches handed to supabase.from('snapshots').insert
    appended,          \* snapshots pushed by saveSnapshot so far
    \* EditorView
    timeRemaining,          \* useState timeRemaining (seconds)
    graceTimeRemaining,     \* useState graceTimeRemaining, -1 for null
    timeoutHandledRef,      \* timeoutHandledRef.current
    graceTimeoutHandledRef, \* graceTimeoutHandledRef.current
    wordCount,              \* useState wordCount
    showConfirmation,       \* useState showConfirmation
    countdownTimer,         \* ms until the timeout of the countdown effect fires, -1 if none
    graceTimer,             \* ms until the timeout of the grace effect fires, -1 if none
    onNextCalls,            \* the calls of onNext so far, each "timer", "grace" or "button"
    \* boot of StudyApp against the participants and sessions tables
    participants,      \* the row of the Prolific ID: "none", "active" or "banned"
    sessions,          \* rows of the sessions table for the Prolific ID
    boot               \* per page load: the position and the observations of init()

vars == <<opts, enabled, now, lastActRef, lastNudgeRef, nudgesRef, armedFinalRef,
          hysteresisOkRef, score, showNudge, nudges, showFinalWarning, finalStrike,
          worstScore, loopFinalStrike, hideTimer, framePending,
          lastOp, frameNo, strikeEmits, lastEmit, minNudgeGap, armCount, recoveredAfterArm,
          requireFullscreen, visible, focused, fullscreenElement, needsAttention,
          violations, escapeCount, escapeLeft, suppressedRef, resumePc, fsEventPending,
          called, lossCount, pressAges,
          step, totalViolations, blocked, bannedForStrikeRef, bannedForViolationsRef,
          strikeBans, violationBans, recorded, submitted,
          guardMounted, wakeLockRef, heldLocks, wakeRequests, wakeReleases, issued,
          loopState,
          snapshotBuffer, flushTimer, pendingTimers, insertCalls, appended,
          timeRemaining, graceTimeRemaining, timeoutHandledRef, graceTimeoutHandledRef,
          wordCount, showConfirmation, countdownTimer, graceTimer, onNextCalls,
          participants, sessions, boot>>

state == <<lastNudgeRef, nudgesRef, armedFinalRef, hysteresisOkRef, score, showNudge,
           nudges, showFinalWarning, finalStrike, worstScore>>

hist == <<frameNo, strikeEmits, lastEmit, minNudgeGap, armCount, recoveredAfterArm>>

\* the scorer's variables except lastOp
avars == <<opts, enabled, now, lastActRef, lastNudgeRef, nudgesRef, armedFinalRef,
           hysteresisOkRef, score, showNudge, nudges, showFinalWarning, finalStrike,
           worstScore, loopFinalStrike, hideTimer, framePending,
           frameNo, strikeEmits, lastEmit, minNudgeGap, armCount, recoveredAfterArm>>

\* the guard's variables
gvars == <<requireFullscreen, visible, focused, fullscreenElement, needsAttention,
           violations, escapeCount, escapeLeft, suppressedRef, resumePc, fsEventPending,
           called, lossCount, pressAges>>

\* the orchestrator's variables
ovars == <<step, totalViolations, blocked, bannedForStrikeRef, bannedForViolationsRef,
           strikeBans, violationBans, recorded, submitted>>

\* the variables of the guard's lifetime and wake lock
wvars == <<guardMounted, wakeLockRef, heldLocks, wakeRequests, wakeReleases, issued>>

\* the variables of the snapshot queue
svars == <<snapshotBuffer, flushTimer, pendingTimers, insertCalls, appended>>

\* the variables of EditorView
evars == <<timeRemaining, graceTimeRemaining, timeoutHandledRef, graceTimeoutHandledRef,
           wordCount, showConfirmation, countdownTimer, graceTimer, onNextCalls>>

\* the variables of the boot
bvars == <<participants, sessions, boot>>

\* the variables of the components added to the hooks and the orchestrator
xvars == <<loopState, svars, evars, bvars>>

----------------------------------------------------------------------------
(* Bounds of the model *)

MaxTicks == 17
MaxNudgesOpt == 2
MaxViolations == 3
MaxWakeLocks == 2
MaxPending == 2
MaxLoads == 3
MaxSnapshots == 5

(* Program constants (times in ms, scores in per-mille) *)

Scale == 1000
graceMs == 5000
halfLifeMs == 15000
nudgeThreshold == 500
finalThresholdDefault == 200
finalThresholdApp == 350
minScore == 50
nudgeCooldownMs == 15000
hysteresisMargin == 80
nudgeHideMs == 2500
pollMs == 500
escapeWindowMs == 2000
escapePresses == 5
violationCeiling == 5
TOTAL_TIME == 1200
MIN_TIME_REQUIRED == 300
graceSeconds == 180
secondMs == 1000
minWords == 250
maxWords == 350
maxWordsForced == 385

TickMs == graceMs
MaxTime == MaxTicks * TickMs
NoGap == MaxTime + TickMs

Min(a, b) == IF a < b THEN a ELSE b
Max(a, b) == IF a > b THEN a ELSE b

FinalThresholds == {finalThresholdDefault, finalThresholdApp}

OptsSet == [maxNudges : 0..MaxNudgesOpt, finalThreshold : FinalThresholds]

ActivityEvents == {"keydown", "input", "mousemove", "mousedown", "wheel", "selectionchange"}

----------------------------------------------------------------------------
(* The decay curve *)

\* floor(Scale * 2^(-r/h)) for 0 <= r < h : the largest y with y^h * 2^r <= Scale^h
FracPow(r, h) ==
    CHOOSE y \in 0..Scale :
        /\ y^h <= (Scale^h) \div (2^r)
        /\ (y + 1)^h > (Scale^h) \div (2^r)

\* floor(Scale * exp(-ln 2 * (t / halfLifeMs))) for the times t = k * TickMs
DecayTable ==
    LET h == halfLifeMs \div TickMs
    IN  [k \in 0..(MaxTicks + 20) |-> FracPow(k % h, h) \div (2^(k \div h))]

Decay(t) == DecayTable[t \div TickMs]

\* variant: the decay starts at once, without the grace window
Score_NoGrace(idle) == Max(minScore, Decay(idle))

Score(idle) ==
    IF idle > graceMs THEN Max(minScore, Decay(idle - graceMs)) ELSE Scale

\* least idle time at which an uninterrupted decay is below the threshold th
StrikeIdleTable ==
    [th \in FinalThresholds |->
        CHOOSE t \in {k * TickMs : k \in 0..(MaxTicks + 20)} :
            /\ Score(t) < th
            /\ \A u \in {k * TickMs : k \in 0..(MaxTicks + 20)} : Score(u) < th => t <= u]

----------------------------------------------------------------------------
(* The tests of the frame loop *)

\* variant: the nudge budget is not tested
NudgeEligible_NoBudget(fs, armed, s, currentNudges) ==
    ~fs /\ ~armed /\ s < nudgeThreshold

NudgeEligible(fs, armed, s, currentNudges) ==
    ~fs /\ ~armed /\ s < nudgeThreshold /\ currentNudges < opts.maxNudges

\* variant: the cooldown is not tested
CooldownElapsed_Always(t, last) == TRUE

\* variant: the cooldown is twice as long
CooldownElapsed_Long(t, last) == t - last > 2 * nudgeCooldownMs

CooldownElapsed(t, last) == t - last > nudgeCooldownMs

\* variant: off-by-one in the arming test
ArmsFinal_Late(newNudgeCount) == newNudgeCount > opts.maxNudges

ArmsFinal(newNudgeCount) == newNudgeCount >= opts.maxNudges

\* variant: the gate is never reopened
HysteresisRecovers_Never(armed, s) == FALSE

HysteresisRecovers(armed, s) == armed /\ s > opts.finalThreshold + hysteresisMargin

\* variant: the strike does not wait for the final warning
StrikeFires_Unarmed(armed, fs, s, hyst) == ~fs /\ s < opts.finalThreshold /\ hyst

StrikeFires(armed, fs, s, hyst) == armed /\ ~fs /\ s < opts.finalThreshold /\ hyst

\* variant: worstScore follows the latest score
WorstAfter_Latest(prev, s) == s

\* setWorstScore(prev => Math.min(prev, s))
WorstAfter(prev, s) == Min(prev, s)

----------------------------------------------------------------------------
(* Initial values of each component; a specification of one component holds *)
(* the variables of the others at these values.                             *)

\* useWritingAttention mounted with the options o and enabled = false
AttnStart(o) ==
    /\ opts = o
    /\ enabled = FALSE
    /\ now = 0
    /\ lastActRef = 0
    /\ lastNudgeRef = 0
    /\ nudgesRef = 0
    /\ armedFinalRef = FALSE
    /\ hysteresisOkRef = TRUE
    /\ score = Scale
    /\ showNudge = FALSE
    /\ nudges = 0
    /\ showFinalWarning = FALSE
    /\ finalStrike = FALSE
    /\ worstScore = Scale
    /\ loopFinalStrike = FALSE
    /\ hideTimer = FALSE
    /\ framePending = FALSE
    /\ lastOp = "mount"
    /\ frameNo = 0
    /\ strikeEmits = 0
    /\ lastEmit = -1
    /\ minNudgeGap = NoGap
    /\ armCount = 0
    /\ recoveredAfterArm = FALSE

\* a compliant document and a guard that has seen nothing
GuardParked ==
    /\ requireFullscreen = TRUE
    /\ visible = TRUE
    /\ focused = TRUE
    /\ fullscreenElement = TRUE
    /\ needsAttention = FALSE
    /\ violations = 0
    /\ escapeCount = 0
    /\ escapeLeft = -1
    /\ suppressedRef = FALSE
    /\ resumePc = "idle"
    /\ fsEventPending = FALSE
    /\ called = "none"
    /\ lossCount = 0
    /\ pressAges = <<>>

\* StudyApp at the step st with nothing recorded
StudyStart(st) ==
    /\ step = st
    /\ totalViolations = 0
    /\ blocked = "none"
    /\ bannedForStrikeRef = FALSE
    /\ bannedForViolationsRef = FALSE
    /\ strikeBans = 0
    /\ violationBans = 0
    /\ recorded = 0
    /\ submitted = FALSE

WakeParked ==
    /\ guardMounted = TRUE
    /\ wakeLockRef = 0
    /\ heldLocks = {}
    /\ wakeRequests = 0
    /\ wakeReleases = 0
    /\ issued = 0

\* the closure of the older hook's loop before the first render
OldHookParked ==
    loopState = [nudges |-> 0, showFinalWarning |-> FALSE, finalStrike |-> FALSE,
                 worstScore |-> Scale]

\* the module-level queue when App.tsx is loaded
SnapshotParked ==
    /\ snapshotBuffer = <<>>
    /\ flushTimer = 0
    /\ pendingTimers = {}
    /\ insertCalls = <<>>
    /\ appended = 0

\* the useState and useRef initial values of EditorView
EditorParked ==
    /\ timeRemaining = TOTAL_TIME
    /\ graceTimeRemaining = -1
    /\ timeoutHandledRef = FALSE
    /\ graceTimeoutHandledRef = FALSE
    /\ wordCount = 0
    /\ showConfirmation = FALSE
    /\ countdownTimer = -1
    /\ graceTimer = -1
    /\ onNextCalls = <<>>

\* a page load before its init() runs
NotLoaded == [pc |-> "unloaded", rowAtStart |-> "none", lookup |-> "none",
              blocked |-> "none", session |-> FALSE]

\* an empty database and no page loaded
BootParked ==
    /\ participants = "none"
    /\ sessions = 0
    /\ boot = [i \in 1..MaxLoads |-> NotLoaded]

XParked == OldHookParked /\ SnapshotParked /\ EditorParked /\ BootParked

----------------------------------------------------------------------------
(* State after the hook is mounted with enabled = false (step 1) *)

Init ==
    /\ opts \in OptsSet
    /\ enabled = FALSE
    /\ now = 0
    /\ lastActRef = 0
    /\ lastNudgeRef = 0
    /\ nudgesRef = 0
    /\ armedFinalRef = FALSE
    /\ hysteresisOkRef = TRUE
    /\ score = Scale
    /\ showNudge = FALSE
    /\ nudges = 0
    /\ showFinalWarning = FALSE
    /\ finalStrike = FALSE
    /\ worstScore = Scale
    /\ loopFinalStrike = FALSE
    /\ hideTimer = FALSE
    /\ framePending = FALSE
    /\ lastOp = "mount"
    /\ frameNo = 0
    /\ strikeEmits = 0
    /\ lastEmit = -1
    /\ minNudgeGap = NoGap
    /\ armCount = 0
    /\ recoveredAfterArm = FALSE
    /\ requireFullscreen = TRUE
    /\ visible = TRUE
    /\ focused = TRUE
    /\ fullscreenElement = TRUE
    /\ needsAttention = FALSE
    /\ violations = 0
    /\ escapeCount = 0
    /\ escapeLeft = -1
    /\ suppressedRef = FALSE
    /\ resumePc = "idle"
    /\ fsEventPending = FALSE
    /\ called = "none"
    /\ lossCount = 0
    /\ pressAges = <<>>
    /\ step = "1"
    /\ totalViolations = 0
    /\ blocked = "none"
    /\ bannedForStrikeRef = FALSE
    /\ bannedForViolationsRef = FALSE
    /\ strikeBans = 0
    /\ violationBans = 0
    /\ recorded = 0
    /\ submitted = FALSE
    /\ guardMounted = TRUE
    /\ wakeLockRef = 0
    /\ heldLocks = {}
    /\ wakeRequests = 0
    /\ wakeReleases = 0
    /\ issued = 0
    /\ XParked

\* the clock advances; the 2500 ms auto-hide timer expires within one step
Tick ==
    /\ now < MaxTime
    /\ hideTimer => nudgeHideMs > TickMs
    /\ now' = now + TickMs
    /\ framePending' = TRUE
    /\ lastOp' = "tick"
    /\ UNCHANGED <<opts, enabled, lastActRef, loopFinalStrike, hideTimer>>
    /\ UNCHANGED state
    /\ UNCHANGED hist
    /\ UNCHANGED <<gvars, ovars, wvars, xvars>>

\* the effect runs with enabled = true: listeners attached, first frame requested;
\* loop closes over the finalStrike of this render
Enable ==
    /\ ~enabled
    /\ enabled' = TRUE
    /\ loopFinalStrike' = finalStrike
    /\ framePending' = TRUE
    /\ lastOp' = "enable"
    /\ frameNo' = 0
    /\ strikeEmits' = 0
    /\ lastEmit' = -1
    /\ minNudgeGap' = NoGap
    /\ armCount' = 0
    /\ recoveredAfterArm' = FALSE
    /\ UNCHANGED <<opts, now, lastActRef, hideTimer>>
    /\ UNCHANGED state
    /\ UNCHANGED <<gvars, ovars, wvars, xvars>>

\* variant: the reset branch forgets the nudge counter
Disable_KeepNudges ==
    /\ enabled
    /\ enabled' = FALSE
    /\ score' = Scale
    /\ showNudge' = FALSE
    /\ showFinalWarning' = FALSE
    /\ finalStrike' = FALSE
    /\ worstScore' = Scale
    /\ armedFinalRef' = FALSE
    /\ hysteresisOkRef' = TRUE
    /\ lastNudgeRef' = 0
    /\ framePending' = FALSE
    /\ lastOp' = "disable"
    /\ UNCHANGED <<opts, now, lastActRef, loopFinalStrike, hideTimer, nudges, nudgesRef>>
    /\ frameNo' = 0
    /\ lastEmit' = -1
    /\ minNudgeGap' = NoGap
    /\ armCount' = 0
    /\ recoveredAfterArm' = FALSE
    /\ UNCHANGED strikeEmits
    /\ UNCHANGED <<gvars, ovars, wvars, xvars>>

\* enabled becomes false: the cleanup of the enabled effect, then the reset branch
Disable ==
    /\ enabled
    /\ enabled' = FALSE
    /\ score' = Scale
    /\ showNudge' = FALSE
    /\ nudges' = 0
    /\ showFinalWarning' = FALSE
    /\ finalStrike' = FALSE
    /\ worstScore' = Scale
    /\ nudgesRef' = 0
    /\ armedFinalRef' = FALSE
    /\ hysteresisOkRef' = TRUE
    /\ lastNudgeRef' = 0
    /\ framePending' = FALSE
    /\ lastOp' = "disable"
    /\ UNCHANGED <<opts, now, lastActRef, loopFinalStrike, hideTimer>>
    /\ frameNo' = 0
    /\ lastEmit' = -1
    /\ minNudgeGap' = NoGap
    /\ armCount' = 0
    /\ recoveredAfterArm' = FALSE
    /\ UNCHANGED strikeEmits
    /\ UNCHANGED <<gvars, ovars, wvars, xvars>>

\* variant: only the timestamp is updated, the displayed score waits for the next frame
markActive_NoScore ==
    /\ lastActRef' = now
    /\ score' = score

markActive ==
    /\ lastActRef' = now
    /\ score' = Scale

\* input, mousemove, mousedown, wheel, selectionchange, and keydown without modifier
Activity(ev) ==
    /\ enabled
    /\ markActive
    /\ framePending' = TRUE
    /\ lastOp' = ev
    /\ UNCHANGED <<opts, enabled, now, lastNudgeRef, nudgesRef, armedFinalRef,
                   hysteresisOkRef, showNudge, nudges, showFinalWarning, finalStrike,
                   worstScore, loopFinalStrike, hideTimer>>
    /\ UNCHANGED hist
    /\ UNCHANGED <<gvars, ovars, wvars, xvars>>

\* variant: the modifier test is missing, the keydown marks activity
KeyIgnored_MarksActive ==
    /\ enabled
    /\ lastOp # "keydown_modifier"
    /\ markActive
    /\ lastOp' = "keydown_modifier"
    /\ UNCHANGED <<opts, enabled, now, lastNudgeRef, nudgesRef, armedFinalRef,
                   hysteresisOkRef, showNudge, nudges, showFinalWarning, finalStrike,
                   worstScore, loopFinalStrike, hideTimer, framePending>>
    /\ UNCHANGED hist
    /\ UNCHANGED <<gvars, ovars, wvars, xvars>>

\* keydown with metaKey, ctrlKey or altKey: the handler returns early
KeyIgnored ==
    /\ enabled
    /\ lastOp # "keydown_modifier"
    /\ lastOp' = "keydown_modifier"
    /\ UNCHANGED <<opts, enabled, now, lastActRef, loopFinalStrike, hideTimer, framePending>>
    /\ UNCHANGED state
    /\ UNCHANGED hist
    /\ UNCHANGED <<gvars, ovars, wvars, xvars>>

\* setTimeout(() => setShowNudge(false), 2500)
HideNudge ==
    /\ hideTimer
    /\ hideTimer' = FALSE
    /\ showNudge' = FALSE
    /\ lastOp' = "hide_nudge"
    /\ UNCHANGED <<opts, enabled, now, lastActRef, lastNudgeRef, nudgesRef, armedFinalRef,
                   hysteresisOkRef, score, nudges, showFinalWarning, finalStrike,
                   worstScore, loopFinalStrike, framePending>>
    /\ UNCHANGED hist
    /\ UNCHANGED <<gvars, ovars, wvars, xvars>>

\* one run of loop (requestAnimationFrame callback)
Frame ==
    /\ enabled
    /\ LET idle == now - lastActRef
           s == Score(idle)
           currentNudges == nudgesRef
           emit == /\ NudgeEligible(loopFinalStrike, armedFinalRef, s, currentNudges)
                   /\ CooldownElapsed(now, lastNudgeRef)
           newNudgeCount == currentNudges + 1
           arm == emit /\ ArmsFinal(newNudgeCount)
           armed1 == armedFinalRef \/ arm
           hyst1 == IF arm THEN FALSE ELSE hysteresisOkRef
           hyst2 == IF HysteresisRecovers(armed1, s) THEN TRUE ELSE hyst1
           strike == StrikeFires(armed1, loopFinalStrike, s, hyst2)
       IN  /\ score' = s
           /\ worstScore' = WorstAfter(worstScore, s)
           /\ lastNudgeRef' = IF emit THEN now ELSE lastNudgeRef
           /\ nudgesRef' = IF emit THEN newNudgeCount ELSE nudgesRef
           /\ nudges' = IF emit THEN newNudgeCount ELSE nudges
           /\ showNudge' = IF emit THEN TRUE ELSE showNudge
           /\ hideTimer' = IF emit THEN TRUE ELSE hideTimer
           /\ showFinalWarning' = IF arm THEN TRUE ELSE showFinalWarning
           /\ armedFinalRef' = armed1
           /\ finalStrike' = IF strike THEN TRUE ELSE finalStrike
           /\ hysteresisOkRef' = IF strike THEN FALSE ELSE hyst2
           /\ lastEmit' = IF emit THEN now ELSE lastEmit
           /\ minNudgeGap' = IF emit /\ lastEmit >= 0
                                 THEN Min(minNudgeGap, now - lastEmit)
                                 ELSE minNudgeGap
           /\ armCount' = IF arm /\ ~armedFinalRef THEN armCount + 1 ELSE armCount
           /\ strikeEmits' = IF strike THEN Min(strikeEmits + 1, 2) ELSE strikeEmits
           /\ recoveredAfterArm' =
                  (recoveredAfterArm \/
                   (armedFinalRef /\ s > opts.finalThreshold + hysteresisMargin))
    /\ frameNo' = Min(frameNo + 1, 2)
    /\ framePending' = FALSE
    /\ lastOp' = "frame"
    /\ UNCHANGED <<opts, enabled, now, lastActRef, loopFinalStrike>>
    /\ UNCHANGED <<gvars, ovars, wvars, xvars>>

Next ==
    \/ Tick
    \/ Enable
    \/ Disable
    \/ \E ev \in ActivityEvents : Activity(ev)
    \/ KeyIgnored
    \/ HideNudge
    \/ Frame

Spec == Init /\ [][Next]_vars

\* Frames at display rate: a frame runs after every clock step and every event
\* before the clock advances again (the frame period is far below TickMs).
TickLive ==
    /\ ~(enabled /\ framePending)
    /\ Tick

\* One keyboard and one pointer event stand for the six kinds, which all run
\* markActive; the modifier keydown, which changes no state, is left to Spec.
LiveEvents == {"keydown", "mousemove"}

NextLive ==
    \/ TickLive
    \/ Enable
    \/ Disable
    \/ \E ev \in LiveEvents : Activity(ev)
    \/ HideNudge
    \/ Frame

\* loop re-requests itself at the end of every run, timers fire, the clock advances
SpecLive ==
    /\ Init
    /\ [][NextLive]_vars
    /\ WF_vars(Frame)
    /\ WF_vars(TickLive)
    /\ WF_vars(HideNudge)

----------------------------------------------------------------------------
(* useComplianceGuard *)

GuardTickMs == pollMs
AgeCap == escapeWindowMs + GuardTickMs

BrowserChanges == {"hide", "show", "blur", "focus", "fsExit"}

\* isCompliant() evaluated on a document state
isCompliant(v, f, fs) == v /\ f /\ (~requireFullscreen \/ fs)

Compliant == isCompliant(visible, focused, fullscreenElement)

\* variant: the developer override is not consulted
flagViolation_NoSuppress ==
    /\ violations' = violations + 1
    /\ called' = "onViolation"
    /\ needsAttention' = TRUE

flagViolation ==
    IF suppressedRef
    THEN /\ UNCHANGED <<violations, needsAttention>>
         /\ called' = "none"
    ELSE /\ violations' = violations + 1
         /\ called' = "onViolation"
         /\ needsAttention' = TRUE

\* variant: a failed check is recorded as a violation
checkNow_Flags(c) ==
    IF suppressedRef \/ c
    THEN /\ needsAttention' = FALSE
         /\ UNCHANGED violations
         /\ called' = "none"
    ELSE /\ needsAttention' = TRUE
         /\ violations' = violations + 1
         /\ called' = "onViolation"

\* variant: a check never raises the overlay
checkNow_ClearOnly(c) ==
    /\ needsAttention' = (IF suppressedRef \/ c THEN FALSE ELSE needsAttention)
    /\ UNCHANGED violations
    /\ called' = "none"

\* checkNow, c being the value of isCompliant()
checkNow(c) ==
    /\ needsAttention' = (IF suppressedRef THEN FALSE ELSE ~c)
    /\ UNCHANGED violations
    /\ called' = "none"

\* onVis, onBlur, onFS
onLossEvent(c) == IF ~c THEN flagViolation ELSE checkNow(c)

\* onFocus
onFocus(c) == checkNow(c)

\* the event a change of the document state fires
EventOf(kind) ==
    CASE kind \in {"hide", "show"} -> "visibilitychange"
      [] kind = "blur" -> "blur"
      [] kind = "focus" -> "focus"
      [] kind = "fsExit" -> "fullscreenchange"

GuardInit ==
    /\ opts = [maxNudges |-> 0, finalThreshold |-> finalThresholdDefault]
    /\ enabled = FALSE
    /\ now = 0
    /\ lastActRef = 0
    /\ lastNudgeRef = 0
    /\ nudgesRef = 0
    /\ armedFinalRef = FALSE
    /\ hysteresisOkRef = TRUE
    /\ score = Scale
    /\ showNudge = FALSE
    /\ nudges = 0
    /\ showFinalWarning = FALSE
    /\ finalStrike = FALSE
    /\ worstScore = Scale
    /\ loopFinalStrike = FALSE
    /\ hideTimer = FALSE
    /\ framePending = FALSE
    /\ frameNo = 0
    /\ strikeEmits = 0
    /\ lastEmit = -1
    /\ minNudgeGap = NoGap
    /\ armCount = 0
    /\ recoveredAfterArm = FALSE
    /\ lastOp = "mount"
    /\ requireFullscreen \in BOOLEAN
    /\ visible = TRUE
    /\ focused = TRUE
    /\ fullscreenElement \in BOOLEAN
    /\ needsAttention = ~Compliant
    /\ violations = 0
    /\ escapeCount = 0
    /\ escapeLeft = -1
    /\ suppressedRef = FALSE
    /\ resumePc = "idle"
    /\ fsEventPending = FALSE
    /\ called = "none"
    /\ lossCount = 0
    /\ pressAges = <<>>
    /\ step = "1"
    /\ totalViolations = 0
    /\ blocked = "none"
    /\ bannedForStrikeRef = FALSE
    /\ bannedForViolationsRef = FALSE
    /\ strikeBans = 0
    /\ violationBans = 0
    /\ recorded = 0
    /\ submitted = FALSE
    /\ guardMounted = TRUE
    /\ wakeLockRef = 0
    /\ heldLocks = {}
    /\ wakeRequests = 0
    /\ wakeReleases = 0
    /\ issued = 0
    /\ XParked

\* the document loses or regains visibility, focus or fullscreen; the change
\* fires its event (the handler runs) or goes unreported
BrowserChange(kind, withEvent) ==
    LET v == IF kind = "hide" THEN FALSE ELSE IF kind = "show" THEN TRUE ELSE visible
        f == IF kind = "blur" THEN FALSE ELSE IF kind = "focus" THEN TRUE ELSE focused
        fs == IF kind = "fsExit" THEN FALSE ELSE fullscreenElement
        c == isCompliant(v, f, fs)
        loss == Compliant /\ ~c
    IN  /\ <<v, f, fs>> # <<visible, focused, fullscreenElement>>
        /\ loss => lossCount < MaxViolations
        /\ (withEvent /\ ~c) => violations < MaxViolations
        /\ visible' = v
        /\ focused' = f
        /\ fullscreenElement' = fs
        /\ lossCount' = IF loss THEN lossCount + 1 ELSE lossCount
        /\ IF withEvent
           THEN /\ IF kind = "focus" THEN onFocus(c) ELSE onLossEvent(c)
                /\ lastOp' = EventOf(kind)
           ELSE /\ UNCHANGED <<needsAttention, violations>>
                /\ called' = "none"
                /\ lastOp' = "unreported"
        /\ UNCHANGED <<requireFullscreen, escapeCount, escapeLeft, suppressedRef,
                       resumePc, fsEventPending, pressAges>>
        /\ UNCHANGED <<avars, ovars, wvars, xvars>>

\* the fullscreenchange event of a fullscreen request granted to resume()
FullscreenEvent ==
    /\ fsEventPending
    /\ ~Compliant => violations < MaxViolations
    /\ fsEventPending' = FALSE
    /\ onLossEvent(Compliant)
    /\ lastOp' = "fullscreenchange"
    /\ UNCHANGED <<requireFullscreen, visible, focused, fullscreenElement, escapeCount,
                   escapeLeft, suppressedRef, resumePc, lossCount, pressAges>>
    /\ UNCHANGED <<avars, ovars, wvars, xvars>>

\* setInterval(checkNow, 500)
Poll ==
    /\ checkNow(Compliant)
    /\ lastOp' = "poll"
    /\ UNCHANGED <<requireFullscreen, visible, focused, fullscreenElement, escapeCount,
                   escapeLeft, suppressedRef, resumePc, fsEventPending, lossCount, pressAges>>
    /\ UNCHANGED <<avars, ovars, wvars, xvars>>

\* the effect runs again after a render (its dependency opts is a new object):
\* listeners and poll are replaced and checkNow() is called
EffectRun ==
    /\ checkNow(Compliant)
    /\ lastOp' = "effect"
    /\ UNCHANGED <<requireFullscreen, visible, focused, fullscreenElement, escapeCount,
                   escapeLeft, suppressedRef, resumePc, fsEventPending, lossCount, pressAges>>
    /\ UNCHANGED <<avars, ovars, wvars, xvars>>

\* variant: off-by-one, the sequence needs a sixth press
EscapeComplete_Late(count) == count > escapePresses

EscapeComplete(count) == count >= escapePresses

\* onKey for a keydown with ctrlKey, shiftKey and code KeyE
EscapeKey ==
    /\ visible /\ focused
    /\ escapeLeft' = escapeWindowMs
    /\ pressAges' = SubSeq(<<0>> \o pressAges, 1, Min(Len(pressAges) + 1, escapePresses))
    /\ IF EscapeComplete(escapeCount + 1)
       THEN /\ escapeCount' = 0
            /\ suppressedRef' = TRUE
            /\ needsAttention' = FALSE
            /\ called' = "onResume"
       ELSE /\ escapeCount' = escapeCount + 1
            /\ UNCHANGED <<suppressedRef, needsAttention>>
            /\ called' = "none"
    /\ lastOp' = "escape_key"
    /\ UNCHANGED <<requireFullscreen, visible, focused, fullscreenElement, violations,
                   resumePc, fsEventPending, lossCount>>
    /\ UNCHANGED <<avars, ovars, wvars, xvars>>

\* setTimeout(() => (escapeRef.current.count = 0), 2000)
EscapeTimeout ==
    /\ escapeLeft = 0
    /\ escapeCount' = 0
    /\ escapeLeft' = -1
    /\ called' = "none"
    /\ lastOp' = "escape_timeout"
    /\ UNCHANGED <<requireFullscreen, visible, focused, fullscreenElement, needsAttention,
                   violations, suppressedRef, resumePc, fsEventPending, lossCount, pressAges>>
    /\ UNCHANGED <<avars, ovars, wvars, xvars>>

\* GuardTickMs pass; a timer that is due fires before more time passes
GuardTick ==
    /\ escapeLeft # 0
    /\ escapeLeft' = IF escapeLeft < 0 THEN -1 ELSE escapeLeft - GuardTickMs
    /\ pressAges' = [i \in 1..Len(pressAges) |-> Min(pressAges[i] + GuardTickMs, AgeCap)]
    /\ called' = "none"
    /\ lastOp' = "guard_tick"
    /\ UNCHANGED <<requireFullscreen, visible, focused, fullscreenElement, needsAttention,
                   violations, escapeCount, suppressedRef, resumePc, fsEventPending, lossCount>>
    /\ UNCHANGED <<avars, ovars, wvars, xvars>>

\* the overlay button is clicked: resume() starts and calls requestFullscreen()
ResumeClick ==
    /\ needsAttention
    /\ visible /\ focused
    /\ resumePc = "idle"
    /\ resumePc' = "fs"
    /\ called' = "none"
    /\ lastOp' = "resume_click"
    /\ UNCHANGED <<requireFullscreen, visible, focused, fullscreenElement, needsAttention,
                   violations, escapeCount, escapeLeft, suppressedRef, fsEventPending,
                   lossCount, pressAges>>
    /\ UNCHANGED <<avars, ovars, wvars, xvars>>

\* requestFullscreen() settles: granted, denied (caught) or not needed
ResumeFullscreen(grant) ==
    /\ resumePc = "fs"
    /\ IF requireFullscreen /\ ~fullscreenElement /\ grant
       THEN /\ fullscreenElement' = TRUE
            /\ fsEventPending' = TRUE
       ELSE UNCHANGED <<fullscreenElement, fsEventPending>>
    /\ resumePc' = "wake"
    /\ called' = "none"
    /\ lastOp' = "resume_fullscreen"
    /\ UNCHANGED <<requireFullscreen, visible, focused, needsAttention, violations,
                   escapeCount, escapeLeft, suppressedRef, lossCount, pressAges>>
    /\ UNCHANGED <<avars, ovars, wvars, xvars>>

\* requestWakeLock() settles (failures are swallowed)
ResumeWakeLock ==
    /\ resumePc = "wake"
    /\ resumePc' = "raf"
    /\ called' = "none"
    /\ lastOp' = "resume_wakelock"
    /\ UNCHANGED <<requireFullscreen, visible, focused, fullscreenElement, needsAttention,
                   violations, escapeCount, escapeLeft, suppressedRef, fsEventPending,
                   lossCount, pressAges>>
    /\ UNCHANGED <<avars, ovars, wvars, xvars>>

\* variant: resume() clears the overlay without checking
ResumeFinish_NoCheck ==
    /\ resumePc = "raf"
    /\ needsAttention' = FALSE
    /\ called' = "onResume"
    /\ resumePc' = "idle"
    /\ lastOp' = "resume_done"
    /\ UNCHANGED <<requireFullscreen, visible, focused, fullscreenElement, violations,
                   escapeCount, escapeLeft, suppressedRef, fsEventPending, lossCount,
                   pressAges>>
    /\ UNCHANGED <<avars, ovars, wvars, xvars>>

\* the animation frame resume() waited for: the final check
ResumeFinish ==
    /\ resumePc = "raf"
    /\ IF Compliant
       THEN /\ needsAttention' = FALSE
            /\ called' = "onResume"
       ELSE /\ needsAttention' = TRUE
            /\ called' = "none"
    /\ resumePc' = "idle"
    /\ lastOp' = "resume_done"
    /\ UNCHANGED <<requireFullscreen, visible, focused, fullscreenElement, violations,
                   escapeCount, escapeLeft, suppressedRef, fsEventPending, lossCount,
                   pressAges>>
    /\ UNCHANGED <<avars, ovars, wvars, xvars>>

\* The guard within one escape window: no 2000 ms pass, so the escape timer
\* does not fire (SpecEscape covers the timing of the escape sequence).
GuardNext ==
    \/ \E kind \in BrowserChanges, withEvent \in BOOLEAN : BrowserChange(kind, withEvent)
    \/ FullscreenEvent
    \/ Poll
    \/ EffectRun
    \/ EscapeKey
    \/ ResumeClick
    \/ \E grant \in BOOLEAN : ResumeFullscreen(grant)
    \/ ResumeWakeLock
    \/ ResumeFinish

SpecGuard == GuardInit /\ [][GuardNext]_vars

\* The escape sequence in time, on a document whose state does not change
EscapeNext ==
    \/ EscapeKey
    \/ EscapeTimeout
    \/ GuardTick
    \/ Poll

SpecEscape == GuardInit /\ [][EscapeNext]_vars

GuardTypeOK ==
    /\ requireFullscreen \in BOOLEAN
    /\ visible \in BOOLEAN /\ focused \in BOOLEAN /\ fullscreenElement \in BOOLEAN
    /\ needsAttention \in BOOLEAN
    /\ violations \in 0..MaxViolations
    /\ lossCount \in 0..MaxViolations
    /\ escapeCount \in 0..(escapePresses - 1)
    /\ escapeLeft \in -1..escapeWindowMs
    /\ resumePc \in {"idle", "fs", "wake", "raf"}
    /\ called \in {"none", "onViolation", "onResume"}
    /\ Len(pressAges) <= escapePresses

TypeOK ==
    /\ opts \in OptsSet
    /\ enabled \in BOOLEAN
    /\ now \in 0..MaxTime
    /\ lastActRef \in 0..MaxTime
    /\ lastNudgeRef \in 0..MaxTime
    /\ nudgesRef \in Nat
    /\ score \in 0..Scale
    /\ worstScore \in 0..Scale

----------------------------------------------------------------------------
(* StudyApp and the ComplianceGate of each study step *)

Steps == {"1", "2", "3", "4", "5", "4.1"}

\* the step the view of step st moves to (onNext, onFinishSurvey)
NextStepOf(st) ==
    CASE st = "1" -> "2"
      [] st = "2" -> "3"
      [] st = "3" -> "4"
      [] st = "4" -> "5"
      [] st = "5" -> "4.1"

\* the `enabled` argument of useWritingAttention
AttentionEnabled(st) == st \in {"3", "4"}

\* variant: the strike is not looked at when the screen is chosen
Screen_NoStrike(b, fs, st) ==
    IF b # "none" THEN "blocked"
    ELSE IF st = "4.1" THEN "completion"
    ELSE "step"

\* the screen StudyApp renders once boot is over (loaded, meta set, device compatible)
Screen(b, fs, st) ==
    IF b # "none" THEN "blocked"
    ELSE IF fs THEN "invalidated"
    ELSE IF st = "4.1" THEN "completion"
    ELSE "step"

CurrentScreen == Screen(blocked, finalStrike, step)

\* the props StudyApp gives to the ComplianceGate of a step
GateProps == [initialViolations |-> totalViolations, onViolation |-> "setTotalViolations"]

\* the options ComplianceGate passes on to useComplianceGuard
GateOpts(props) ==
    [k \in DOMAIN props \cap {"requireFullscreen", "enableWakeLock", "onViolation", "onResume"}
        |-> props[k]]

\* opts.initialViolations ?? 0
InitialViolations(o) ==
    IF "initialViolations" \in DOMAIN o THEN o.initialViolations ELSE 0

\* variant: the ban is due on reaching the ceiling
ViolationBanDue_AtCeiling(tv, banned) == tv >= violationCeiling /\ ~banned

\* the test of the effect on [totalViolations, meta]
ViolationBanDue(tv, banned) == tv > violationCeiling /\ ~banned

\* the effect on [totalViolations, meta], run for the new total tv
ViolationsEffect(tv) ==
    IF ViolationBanDue(tv, bannedForViolationsRef)
    THEN /\ bannedForViolationsRef' = TRUE
         /\ violationBans' = violationBans + 1
         /\ blocked' = "fullscreen_violations"
    ELSE UNCHANGED <<bannedForViolationsRef, violationBans, blocked>>

\* the effect on [attn.finalStrike, meta], run for the new value fs
StrikeEffect(fs) ==
    IF fs /\ ~bannedForStrikeRef
    THEN /\ bannedForStrikeRef' = TRUE
         /\ strikeBans' = strikeBans + 1
    ELSE UNCHANGED <<bannedForStrikeRef, strikeBans>>

\* Boot is over, step 1 is shown; the participant is in fullscreen with the
\* tab visible and focused.
StudyInit ==
    /\ opts = [maxNudges |-> MaxNudgesOpt, finalThreshold |-> finalThresholdApp]
    /\ enabled = FALSE
    /\ now = 0
    /\ lastActRef = 0
    /\ lastNudgeRef = 0
    /\ nudgesRef = 0
    /\ armedFinalRef = FALSE
    /\ hysteresisOkRef = TRUE
    /\ score = Scale
    /\ showNudge = FALSE
    /\ nudges = 0
    /\ showFinalWarning = FALSE
    /\ finalStrike = FALSE
    /\ worstScore = Scale
    /\ loopFinalStrike = FALSE
    /\ hideTimer = FALSE
    /\ framePending = FALSE
    /\ frameNo = 0
    /\ strikeEmits = 0
    /\ lastEmit = -1
    /\ minNudgeGap = NoGap
    /\ armCount = 0
    /\ recoveredAfterArm = FALSE
    /\ lastOp = "mount"
    /\ requireFullscreen = TRUE
    /\ visible = TRUE
    /\ focused = TRUE
    /\ fullscreenElement = TRUE
    /\ needsAttention = FALSE
    /\ violations = InitialViolations(GateOpts([initialViolations |-> 0]))
    /\ escapeCount = 0
    /\ escapeLeft = -1
    /\ suppressedRef = FALSE
    /\ resumePc = "idle"
    /\ fsEventPending = FALSE
    /\ called = "none"
    /\ lossCount = 0
    /\ pressAges = <<>>
    /\ step = "1"
    /\ totalViolations = 0
    /\ blocked = "none"
    /\ bannedForStrikeRef = FALSE
    /\ bannedForViolationsRef = FALSE
    /\ strikeBans = 0
    /\ violationBans = 0
    /\ recorded = 0
    /\ submitted = FALSE
    /\ guardMounted = TRUE
    /\ wakeLockRef = 0
    /\ heldLocks = {}
    /\ wakeRequests = 0
    /\ wakeReleases = 0
    /\ issued = 0
    /\ XParked

\* the view of the current step calls onNext (step 5: onFinishSurvey inserts the
\* submission and shows the completion screen); the gate of the old step
\* unmounts and the gate of the new step mounts with a new guard instance; the
\* effect of useWritingAttention runs when `enabled` changes
StudyNextStep ==
    /\ CurrentScreen = "step"
    /\ step' = NextStepOf(step)
    /\ submitted' = (submitted \/ step = "5")
    /\ enabled' = AttentionEnabled(step')
    /\ IF enabled /\ ~enabled'
       THEN /\ score' = Scale
            /\ showNudge' = FALSE
            /\ nudges' = 0
            /\ showFinalWarning' = FALSE
            /\ finalStrike' = FALSE
            /\ worstScore' = Scale
            /\ nudgesRef' = 0
            /\ armedFinalRef' = FALSE
            /\ hysteresisOkRef' = TRUE
            /\ lastNudgeRef' = 0
       ELSE UNCHANGED state
    /\ loopFinalStrike' = IF ~enabled /\ enabled' THEN finalStrike ELSE loopFinalStrike
    /\ guardMounted' = (Screen(blocked, finalStrike', step') = "step")
    /\ IF guardMounted'
       THEN /\ violations' = InitialViolations(GateOpts(GateProps))
            /\ needsAttention' = ~Compliant
            /\ escapeCount' = 0
            /\ escapeLeft' = -1
            /\ suppressedRef' = FALSE
            /\ resumePc' = "idle"
            /\ pressAges' = <<>>
       ELSE UNCHANGED <<violations, needsAttention, escapeCount, escapeLeft,
                        suppressedRef, resumePc, pressAges>>
    /\ called' = "none"
    /\ lastOp' = "next_step"
    /\ UNCHANGED <<opts, now, lastActRef, hideTimer, framePending>>
    /\ UNCHANGED hist
    /\ UNCHANGED <<requireFullscreen, visible, focused, fullscreenElement,
                   fsEventPending, lossCount>>
    /\ UNCHANGED <<totalViolations, blocked, bannedForStrikeRef, bannedForViolationsRef,
                   strikeBans, violationBans, recorded>>
    /\ UNCHANGED <<wakeLockRef, heldLocks, wakeRequests, wakeReleases, issued>>
    /\ UNCHANGED xvars

\* the window loses focus: onBlur of the mounted gate, then onViolation
\* (setTotalViolations) and the effect on totalViolations
StudyBlur ==
    /\ guardMounted
    /\ focused
    /\ focused' = FALSE
    /\ onLossEvent(isCompliant(visible, FALSE, fullscreenElement))
    /\ totalViolations' = IF called' = "onViolation" THEN violations' ELSE totalViolations
    /\ recorded' = IF called' = "onViolation" THEN recorded + 1 ELSE recorded
    /\ ViolationsEffect(totalViolations')
    /\ guardMounted' = (Screen(blocked', finalStrike, step) = "step")
    /\ lastOp' = "blur"
    /\ UNCHANGED <<requireFullscreen, visible, fullscreenElement, escapeCount, escapeLeft,
                   suppressedRef, resumePc, fsEventPending, lossCount, pressAges>>
    /\ UNCHANGED avars
    /\ UNCHANGED <<step, bannedForStrikeRef, strikeBans, submitted>>
    /\ UNCHANGED <<wakeLockRef, heldLocks, wakeRequests, wakeReleases, issued>>
    /\ UNCHANGED xvars

\* the window regains focus: onFocus of the mounted gate
StudyFocus ==
    /\ guardMounted
    /\ BrowserChange("focus", TRUE)

\* the poll of the mounted gate
StudyPoll ==
    /\ guardMounted
    /\ Poll

\* Ctrl+Shift+E in the mounted gate
StudyEscapeKey ==
    /\ guardMounted
    /\ EscapeKey

\* The scorer as the orchestrator sees it: the frames of an enabled phase up to
\* the one whose strike test fires (the runs of Spec that end in a strike),
\* then the effect on attn.finalStrike.
AttentionStrike ==
    /\ enabled
    /\ ~finalStrike
    /\ finalStrike' = TRUE
    /\ showFinalWarning' = TRUE
    /\ armedFinalRef' = TRUE
    /\ hysteresisOkRef' = FALSE
    /\ nudges' = opts.maxNudges
    /\ nudgesRef' = opts.maxNudges
    /\ StrikeEffect(finalStrike')
    /\ guardMounted' = (Screen(blocked, finalStrike', step) = "step")
    /\ called' = "none"
    /\ lastOp' = "frame"
    /\ UNCHANGED <<opts, enabled, now, lastActRef, lastNudgeRef, score, showNudge,
                   worstScore, loopFinalStrike, hideTimer, framePending>>
    /\ UNCHANGED hist
    /\ UNCHANGED <<requireFullscreen, visible, focused, fullscreenElement, needsAttention,
                   violations, escapeCount, escapeLeft, suppressedRef, resumePc,
                   fsEventPending, lossCount, pressAges>>
    /\ UNCHANGED <<step, totalViolations, blocked, bannedForViolationsRef, violationBans,
                   recorded, submitted>>
    /\ UNCHANGED <<wakeLockRef, heldLocks, wakeRequests, wakeReleases, issued>>
    /\ UNCHANGED xvars

StudyNext ==
    \/ StudyNextStep
    \/ StudyBlur
    \/ StudyFocus
    \/ StudyPoll
    \/ StudyEscapeKey
    \/ AttentionStrike

SpecStudy == StudyInit /\ [][StudyNext]_vars

StudyTypeOK ==
    /\ step \in Steps
    /\ totalViolations \in 0..(violationCeiling + 1)
    /\ violations \in 0..(violationCeiling + 1)
    /\ blocked \in {"none", "fullscreen_violations"}
    /\ guardMounted = (CurrentScreen = "step")
    /\ enabled = AttentionEnabled(step)

----------------------------------------------------------------------------
(* Lifetime of one useComplianceGuard instance: wake lock and unmount cleanup *)

\* the instance has just been mounted: the effect has attached the listeners,
\* started the poll, run checkNow() and called requestWakeLock()
WakeInit ==
    /\ opts = [maxNudges |-> 0, finalThreshold |-> finalThresholdDefault]
    /\ enabled = FALSE
    /\ now = 0
    /\ lastActRef = 0
    /\ lastNudgeRef = 0
    /\ nudgesRef = 0
    /\ armedFinalRef = FALSE
    /\ hysteresisOkRef = TRUE
    /\ score = Scale
    /\ showNudge = FALSE
    /\ nudges = 0
    /\ showFinalWarning = FALSE
    /\ finalStrike = FALSE
    /\ worstScore = Scale
    /\ loopFinalStrike = FALSE
    /\ hideTimer = FALSE
    /\ framePending = FALSE
    /\ frameNo = 0
    /\ strikeEmits = 0
    /\ lastEmit = -1
    /\ minNudgeGap = NoGap
    /\ armCount = 0
    /\ recoveredAfterArm = FALSE
    /\ lastOp = "mount"
    /\ requireFullscreen = TRUE
    /\ visible = TRUE
    /\ focused = TRUE
    /\ fullscreenElement \in BOOLEAN
    /\ needsAttention = ~Compliant
    /\ violations = 0
    /\ escapeCount = 0
    /\ escapeLeft = -1
    /\ suppressedRef = FALSE
    /\ resumePc = "idle"
    /\ fsEventPending = FALSE
    /\ called = "none"
    /\ lossCount = 0
    /\ pressAges = <<>>
    /\ step = "1"
    /\ totalViolations = 0
    /\ blocked = "none"
    /\ bannedForStrikeRef = FALSE
    /\ bannedForViolationsRef = FALSE
    /\ strikeBans = 0
    /\ violationBans = 0
    /\ recorded = 0
    /\ submitted = FALSE
    /\ guardMounted = TRUE
    /\ wakeLockRef = 0
    /\ heldLocks = {}
    /\ wakeRequests = 1
    /\ wakeReleases = 0
    /\ issued = 0
    /\ XParked

\* releaseWakeLock() up to its await: release() is called on the sentinel in the ref
ReleaseStart(held) == held \ {wakeLockRef}

\* navigator.wakeLock.request("screen") resolves: the awaiting requestWakeLock()
\* stores the sentinel in the ref
WakeGrant ==
    /\ wakeRequests > 0
    /\ issued < MaxWakeLocks
    /\ issued' = issued + 1
    /\ heldLocks' = heldLocks \cup {issued + 1}
    /\ wakeLockRef' = issued + 1
    /\ wakeRequests' = wakeRequests - 1
    /\ lastOp' = "wake_grant"
    /\ UNCHANGED <<guardMounted, wakeReleases>>
    /\ UNCHANGED <<avars, gvars, ovars, xvars>>

\* the request rejects: the catch swallows it
WakeDeny ==
    /\ wakeRequests > 0
    /\ wakeRequests' = wakeRequests - 1
    /\ lastOp' = "wake_deny"
    /\ UNCHANGED <<guardMounted, wakeLockRef, heldLocks, wakeReleases, issued>>
    /\ UNCHANGED <<avars, gvars, ovars, xvars>>

\* releaseWakeLock() after its await: wakeLockRef.current = null
ReleaseDone ==
    /\ wakeReleases > 0
    /\ wakeLockRef' = 0
    /\ wakeReleases' = wakeReleases - 1
    /\ lastOp' = "wake_released"
    /\ UNCHANGED <<guardMounted, heldLocks, wakeRequests, issued>>
    /\ UNCHANGED <<avars, gvars, ovars, xvars>>

\* a render changes opts: the cleanup of the previous effect run (listeners and
\* poll removed, releaseWakeLock()), then the effect again (listeners and poll,
\* checkNow(), requestWakeLock())
WakeEffectRun ==
    /\ guardMounted
    /\ wakeRequests < MaxPending
    /\ wakeReleases < MaxPending
    /\ heldLocks' = ReleaseStart(heldLocks)
    /\ wakeReleases' = wakeReleases + 1
    /\ checkNow(Compliant)
    /\ wakeRequests' = wakeRequests + 1
    /\ lastOp' = "effect"
    /\ UNCHANGED <<guardMounted, wakeLockRef, issued>>
    /\ UNCHANGED <<requireFullscreen, visible, focused, fullscreenElement, escapeCount,
                   escapeLeft, suppressedRef, resumePc, fsEventPending, lossCount, pressAges>>
    /\ UNCHANGED <<avars, ovars, xvars>>

\* the instance unmounts: the cleanup removes the listeners, clears the poll
\* and calls releaseWakeLock()
Unmount ==
    /\ guardMounted
    /\ wakeReleases < MaxPending
    /\ guardMounted' = FALSE
    /\ heldLocks' = ReleaseStart(heldLocks)
    /\ wakeReleases' = wakeReleases + 1
    /\ lastOp' = "unmount"
    /\ UNCHANGED <<wakeLockRef, wakeRequests, issued>>
    /\ UNCHANGED <<avars, gvars, ovars, xvars>>

\* an event handler or the poll of the mounted instance
WakeGuardEvent ==
    /\ guardMounted
    /\ \/ \E kind \in {"blur", "focus"} : BrowserChange(kind, TRUE)
       \/ Poll

\* the document changes after the unmount: no handler is attached
WakeNoHandler ==
    /\ ~guardMounted
    /\ \E kind \in {"blur", "focus"} : BrowserChange(kind, FALSE)

\* the overlay button of the mounted instance is clicked
WakeResumeClick ==
    /\ guardMounted
    /\ ResumeClick

\* resume() at await requestWakeLock(): the request is made and settles
WakeResumeLock(granted) ==
    /\ resumePc = "wake"
    /\ resumePc' = "raf"
    /\ IF granted /\ issued < MaxWakeLocks
       THEN /\ issued' = issued + 1
            /\ heldLocks' = heldLocks \cup {issued + 1}
            /\ wakeLockRef' = issued + 1
       ELSE UNCHANGED <<issued, heldLocks, wakeLockRef>>
    /\ called' = "none"
    /\ lastOp' = "resume_wakelock"
    /\ UNCHANGED <<guardMounted, wakeRequests, wakeReleases>>
    /\ UNCHANGED <<requireFullscreen, visible, focused, fullscreenElement, needsAttention,
                   violations, escapeCount, escapeLeft, suppressedRef, fsEventPending,
                   lossCount, pressAges>>
    /\ UNCHANGED <<avars, ovars, xvars>>

\* the final check of resume(); the state setters of an unmounted instance
\* have no effect
WakeResumeFinish ==
    IF guardMounted
    THEN ResumeFinish
    ELSE /\ resumePc = "raf"
         /\ resumePc' = "idle"
         /\ called' = IF Compliant THEN "onResume" ELSE "none"
         /\ lastOp' = "resume_done"
         /\ UNCHANGED <<requireFullscreen, visible, focused, fullscreenElement,
                        needsAttention, violations, escapeCount, escapeLeft, suppressedRef,
                        fsEventPending, lossCount, pressAges>>
         /\ UNCHANGED <<avars, ovars, wvars, xvars>>

WakeNext ==
    \/ WakeGrant
    \/ WakeDeny
    \/ ReleaseDone
    \/ WakeEffectRun
    \/ Unmount
    \/ WakeGuardEvent
    \/ WakeNoHandler
    \/ WakeResumeClick
    \/ \E grant \in BOOLEAN : ResumeFullscreen(grant)
    \/ \E granted \in BOOLEAN : WakeResumeLock(granted)
    \/ WakeResumeFinish

SpecWake == WakeInit /\ [][WakeNext]_vars

WakeTypeOK ==
    /\ guardMounted \in BOOLEAN
    /\ wakeLockRef \in 0..MaxWakeLocks
    /\ heldLocks \subseteq 1..MaxWakeLocks
    /\ wakeRequests \in 0..MaxPending
    /\ wakeReleases \in 0..MaxPending
    /\ issued \in 0..MaxWakeLocks

----------------------------------------------------------------------------
(* The older useWritingAttention (src/unnamed/part_003, lines 218-324),      *)
(* called with halfLifeMs: 15000 and maxNudges, finalThreshold from opts.    *)
(* Its loop reads the state values nudges, showFinalWarning, finalStrike and *)
(* worstScore of the render in which the enabled effect ran.                 *)

OldOptsSet == [maxNudges : 1..MaxNudgesOpt, finalThreshold : FinalThresholds]

\* the state values the loop of an effect run closes over
OldClosure ==
    [nudges |-> nudges, showFinalWarning |-> showFinalWarning,
     finalStrike |-> finalStrike, worstScore |-> worstScore]

\* the nudge test of the older loop, c being the closure
OldNudgeEligible(c, s) ==
    ~c.finalStrike /\ ~c.showFinalWarning /\ s < nudgeThreshold /\ c.nudges < opts.maxNudges

\* the arming test of the older loop
OldArmsFinal(c) == c.nudges + 1 >= opts.maxNudges

OldInit ==
    /\ \E o \in OldOptsSet : AttnStart(o)
    /\ OldHookParked
    /\ GuardParked
    /\ StudyStart("1")
    /\ WakeParked
    /\ SnapshotParked
    /\ EditorParked
    /\ BootParked

OldTick ==
    /\ now < MaxTime
    /\ hideTimer => nudgeHideMs > TickMs
    /\ now' = now + TickMs
    /\ lastOp' = "tick"
    /\ UNCHANGED <<opts, enabled, lastActRef, loopFinalStrike, hideTimer, framePending>>
    /\ UNCHANGED state
    /\ UNCHANGED hist
    /\ UNCHANGED <<gvars, ovars, wvars, svars, evars, bvars, loopState>>

\* the effect runs with enabled = true: nothing is reset, loop closes over the
\* state of this render
OldEnable ==
    /\ ~enabled
    /\ enabled' = TRUE
    /\ loopState' = OldClosure
    /\ lastOp' = "enable"
    /\ UNCHANGED <<opts, now, lastActRef, loopFinalStrike, hideTimer, framePending>>
    /\ UNCHANGED state
    /\ UNCHANGED hist
    /\ UNCHANGED <<gvars, ovars, wvars, svars, evars, bvars>>

\* enabled becomes false: the cleanup removes the listeners, cancels the frame
\* and hides the toast; the effect returns at once
OldDisable ==
    /\ enabled
    /\ enabled' = FALSE
    /\ showNudge' = FALSE
    /\ lastOp' = "disable"
    /\ UNCHANGED <<opts, now, lastActRef, loopFinalStrike, hideTimer, framePending,
                   lastNudgeRef, nudgesRef, armedFinalRef, hysteresisOkRef, score, nudges,
                   showFinalWarning, finalStrike, worstScore>>
    /\ UNCHANGED hist
    /\ UNCHANGED <<gvars, ovars, wvars, svars, evars, bvars, loopState>>

\* a recognized activity event
OldActivity(ev) ==
    /\ enabled
    /\ markActive
    /\ lastOp' = ev
    /\ UNCHANGED <<opts, enabled, now, lastNudgeRef, nudgesRef, armedFinalRef,
                   hysteresisOkRef, showNudge, nudges, showFinalWarning, finalStrike,
                   worstScore, loopFinalStrike, hideTimer, framePending>>
    /\ UNCHANGED hist
    /\ UNCHANGED <<gvars, ovars, wvars, svars, evars, bvars, loopState>>

\* the 2500 ms timer of a nudge fires
OldHideNudge ==
    /\ hideTimer
    /\ hideTimer' = FALSE
    /\ showNudge' = FALSE
    /\ lastOp' = "hide_nudge"
    /\ UNCHANGED <<opts, enabled, now, lastActRef, lastNudgeRef, nudgesRef, armedFinalRef,
                   hysteresisOkRef, score, nudges, showFinalWarning, finalStrike,
                   worstScore, loopFinalStrike, framePending>>
    /\ UNCHANGED hist
    /\ UNCHANGED <<gvars, ovars, wvars, svars, evars, bvars, loopState>>

\* one run of the older loop
OldFrame ==
    /\ enabled
    /\ LET c == loopState
           s == Score(now - lastActRef)
           emit == OldNudgeEligible(c, s) /\ CooldownElapsed(now, lastNudgeRef)
           arm == emit /\ OldArmsFinal(c)
           armed1 == armedFinalRef \/ arm
           hyst1 == IF arm THEN FALSE ELSE hysteresisOkRef
           hyst2 == IF HysteresisRecovers(armed1, s) THEN TRUE ELSE hyst1
           strike == StrikeFires(armed1, c.finalStrike, s, hyst2)
       IN  /\ score' = s
           /\ worstScore' = IF s < c.worstScore THEN s ELSE worstScore
           /\ lastNudgeRef' = IF emit THEN now ELSE lastNudgeRef
           /\ nudges' = IF emit THEN nudges + 1 ELSE nudges
           /\ showNudge' = IF emit THEN TRUE ELSE showNudge
           /\ hideTimer' = IF emit THEN TRUE ELSE hideTimer
           /\ showFinalWarning' = IF arm THEN TRUE ELSE showFinalWarning
           /\ armedFinalRef' = armed1
           /\ finalStrike' = IF strike THEN TRUE ELSE finalStrike
           /\ hysteresisOkRef' = IF strike THEN FALSE ELSE hyst2
    /\ lastOp' = "frame"
    /\ UNCHANGED <<opts, enabled, now, lastActRef, loopFinalStrike, framePending, nudgesRef>>
    /\ UNCHANGED hist
    /\ UNCHANGED <<gvars, ovars, wvars, svars, evars, bvars, loopState>>

OldNext ==
    \/ OldTick
    \/ OldEnable
    \/ OldDisable
    \/ \E ev \in LiveEvents : OldActivity(ev)
    \/ OldHideNudge
    \/ OldFrame

SpecOld == OldInit /\ [][OldNext]_vars

----------------------------------------------------------------------------
(* Snapshot queue (src/website/src/App.tsx, lines 168-198 and 2269-2281).    *)
(* Snapshots are numbered in the order saveSnapshot pushes them; a timer     *)
(* handle is the number of the snapshot whose push set the timer.            *)

\* all the ids of a sequence of batches
RECURSIVE BatchIds(_)
BatchIds(calls) ==
    IF calls = <<>> THEN <<>>
    ELSE Head(calls).batch \o BatchIds(Tail(calls))

\* occurrences of the snapshot id in the sequence q
Occurrences(q, id) == Cardinality({i \in 1..Len(q) : q[i] = id})

\* an insert call with the batch b, made by the timer or by the final flush
InsertCall(by, b) == [by |-> by, batch |-> b]

SnapshotInit ==
    /\ AttnStart([maxNudges |-> 0, finalThreshold |-> finalThresholdDefault])
    /\ GuardParked
    /\ StudyStart("1")
    /\ WakeParked
    /\ OldHookParked
    /\ SnapshotParked
    /\ EditorParked
    /\ BootParked

\* saveSnapshot: push, then set the flush timer unless one is set
saveSnapshot ==
    /\ appended < MaxSnapshots
    /\ appended' = appended + 1
    /\ snapshotBuffer' = Append(snapshotBuffer, appended')
    /\ IF flushTimer = 0
       THEN /\ flushTimer' = appended'
            /\ pendingTimers' = pendingTimers \cup {appended'}
       ELSE UNCHANGED <<flushTimer, pendingTimers>>
    /\ UNCHANGED insertCalls
    /\ UNCHANGED <<lastOp, avars, gvars, ovars, wvars, evars, bvars, loopState>>

\* variant: the timer callback copies the buffer and leaves it as it is
FlushTimerFires_Copy(h) ==
    /\ h \in pendingTimers
    /\ pendingTimers' = pendingTimers \ {h}
    /\ flushTimer' = 0
    /\ insertCalls' = IF snapshotBuffer # <<>>
                      THEN Append(insertCalls, InsertCall("timer", snapshotBuffer))
                      ELSE insertCalls
    /\ UNCHANGED <<snapshotBuffer, appended>>
    /\ UNCHANGED <<lastOp, avars, gvars, ovars, wvars, evars, bvars, loopState>>

\* the callback of the 1000 ms timer h: splice the whole buffer, forget the
\* timer, insert the batch if it is not empty
FlushTimerFires(h) ==
    /\ h \in pendingTimers
    /\ pendingTimers' = pendingTimers \ {h}
    /\ snapshotBuffer' = <<>>
    /\ flushTimer' = 0
    /\ insertCalls' = IF snapshotBuffer # <<>>
                      THEN Append(insertCalls, InsertCall("timer", snapshotBuffer))
                      ELSE insertCalls
    /\ UNCHANGED appended
    /\ UNCHANGED <<lastOp, avars, gvars, ovars, wvars, evars, bvars, loopState>>

\* the final flush of onFinishSurvey: clear the pending timer, insert what
\* the buffer holds
FinalFlush ==
    /\ pendingTimers' = IF flushTimer # 0 THEN pendingTimers \ {flushTimer}
                        ELSE pendingTimers
    /\ flushTimer' = 0
    /\ IF snapshotBuffer # <<>>
       THEN /\ insertCalls' = Append(insertCalls, InsertCall("final", snapshotBuffer))
            /\ snapshotBuffer' = <<>>
       ELSE UNCHANGED <<insertCalls, snapshotBuffer>>
    /\ UNCHANGED appended
    /\ UNCHANGED <<lastOp, avars, gvars, ovars, wvars, evars, bvars, loopState>>

SnapshotNext ==
    \/ saveSnapshot
    \/ \E h \in pendingTimers : FlushTimerFires(h)
    \/ FinalFlush

SpecSnapshot == SnapshotInit /\ [][SnapshotNext]_vars

----------------------------------------------------------------------------
(* EditorView (src/website/src/App.tsx, lines 1378-1479 and 1695-1740):      *)
(* the writing countdown, the grace countdown and the submit button.  Each   *)
(* countdown is a chain of 1000 ms timeouts, one per run of its effect; the  *)
(* clock advances in half seconds.                                           *)

\* word counts on both sides of every limit the view tests
WordCounts == {0, minWords - 1, minWords, maxWords, maxWords + 1,
               maxWordsForced, maxWordsForced + 1}

EditorMounted == step = "4" /\ CurrentScreen = "step"

\* the test of the expiry effect
TimeoutDue(tr, handled) == tr = 0 /\ ~handled

\* the test of the grace expiry effect
GraceDue(g, handled) == g = 0 /\ ~handled

\* the word count with which the expiry proceeds at once
ProceedsAtExpiry(wc) == wc >= minWords /\ wc <= maxWordsForced

\* the disabled attribute of the submit button
SubmitDisabled(tr, g, wc) ==
    \/ tr > MIN_TIME_REQUIRED
    \/ wc < minWords
    \/ (g > 0 /\ wc > maxWordsForced)
    \/ (~(g > 0) /\ wc > maxWords)

\* the effects of EditorView after a render with the values tr, g, wc; restart
\* tells that the dependencies of the countdown effect have changed
EditorEffects(tr, g, wc, restart) ==
    LET expire == TimeoutDue(tr, timeoutHandledRef)
        proceed == expire /\ ProceedsAtExpiry(wc)
        g1 == IF expire /\ ~proceed THEN graceSeconds ELSE g
        force == GraceDue(g1, graceTimeoutHandledRef)
        next == IF proceed THEN <<"timer">> ELSE <<>>
        next2 == IF force THEN next \o <<"grace">> ELSE next
        gone == next2 # <<>>
    IN  /\ timeRemaining' = tr
        /\ wordCount' = wc
        /\ timeoutHandledRef' = (timeoutHandledRef \/ expire)
        /\ graceTimeRemaining' = g1
        /\ graceTimeoutHandledRef' = (graceTimeoutHandledRef \/ force)
        /\ onNextCalls' = onNextCalls \o next2
        /\ step' = IF gone THEN "5" ELSE step
        /\ countdownTimer' = IF gone \/ tr = 0 THEN -1
                             ELSE IF restart THEN secondMs
                             ELSE countdownTimer
        /\ graceTimer' = IF gone \/ ~(g1 > 0) THEN -1
                         ELSE IF g1 # graceTimeRemaining THEN secondMs
                         ELSE graceTimer

EditorInit ==
    /\ AttnStart([maxNudges |-> MaxNudgesOpt, finalThreshold |-> finalThresholdApp])
    /\ GuardParked
    /\ StudyStart("4")
    /\ WakeParked
    /\ OldHookParked
    /\ SnapshotParked
    /\ BootParked
    /\ timeRemaining = TOTAL_TIME
    /\ graceTimeRemaining = -1
    /\ timeoutHandledRef = FALSE
    /\ graceTimeoutHandledRef = FALSE
    /\ wordCount = 0
    /\ showConfirmation = FALSE
    /\ countdownTimer = secondMs
    /\ graceTimer = -1
    /\ onNextCalls = <<>>

\* half a second passes; a timeout that is due fires first
EditorClock ==
    /\ EditorMounted
    /\ countdownTimer # 0 /\ graceTimer # 0
    /\ countdownTimer > 0 \/ graceTimer > 0
    /\ countdownTimer' = IF countdownTimer > 0 THEN countdownTimer - secondMs \div 2
                         ELSE countdownTimer
    /\ graceTimer' = IF graceTimer > 0 THEN graceTimer - secondMs \div 2 ELSE graceTimer
    /\ UNCHANGED <<timeRemaining, graceTimeRemaining, timeoutHandledRef,
                   graceTimeoutHandledRef, wordCount, showConfirmation, onNextCalls>>
    /\ UNCHANGED <<lastOp, avars, gvars, ovars, wvars, svars, bvars, loopState>>

\* the timeout of the countdown effect: one second less, then the effects
CountdownFires ==
    /\ EditorMounted
    /\ countdownTimer = 0
    /\ EditorEffects(timeRemaining - 1, graceTimeRemaining, wordCount, TRUE)
    /\ UNCHANGED showConfirmation
    /\ UNCHANGED <<totalViolations, blocked, bannedForStrikeRef, bannedForViolationsRef,
                   strikeBans, violationBans, recorded, submitted>>
    /\ UNCHANGED <<lastOp, avars, gvars, wvars, svars, bvars, loopState>>

\* the timeout of the grace effect
GraceFires ==
    /\ EditorMounted
    /\ graceTimer = 0
    /\ EditorEffects(timeRemaining, graceTimeRemaining - 1, wordCount, FALSE)
    /\ UNCHANGED showConfirmation
    /\ UNCHANGED <<totalViolations, blocked, bannedForStrikeRef, bannedForViolationsRef,
                   strikeBans, violationBans, recorded, submitted>>
    /\ UNCHANGED <<lastOp, avars, gvars, wvars, svars, bvars, loopState>>

\* the text changes and its word count becomes wc
EditorType(wc) ==
    /\ EditorMounted
    /\ wc # wordCount
    /\ EditorEffects(timeRemaining, graceTimeRemaining, wc, TRUE)
    /\ UNCHANGED showConfirmation
    /\ UNCHANGED <<totalViolations, blocked, bannedForStrikeRef, bannedForViolationsRef,
                   strikeBans, violationBans, recorded, submitted>>
    /\ UNCHANGED <<lastOp, avars, gvars, wvars, svars, bvars, loopState>>

\* the submit button opens the confirmation, "No, continue writing" closes it
EditorConfirmation(open) ==
    /\ EditorMounted
    /\ showConfirmation # open
    /\ open => ~SubmitDisabled(timeRemaining, graceTimeRemaining, wordCount)
    /\ showConfirmation' = open
    /\ UNCHANGED <<timeRemaining, graceTimeRemaining, timeoutHandledRef,
                   graceTimeoutHandledRef, wordCount, countdownTimer, graceTimer,
                   onNextCalls>>
    /\ UNCHANGED <<lastOp, avars, gvars, ovars, wvars, svars, bvars, loopState>>

\* "Yes, submit story"
EditorSubmit ==
    /\ EditorMounted
    /\ showConfirmation
    /\ onNextCalls' = Append(onNextCalls, "button")
    /\ step' = "5"
    /\ countdownTimer' = -1
    /\ graceTimer' = -1
    /\ UNCHANGED <<timeRemaining, graceTimeRemaining, timeoutHandledRef,
                   graceTimeoutHandledRef, wordCount, showConfirmation>>
    /\ UNCHANGED <<totalViolations, blocked, bannedForStrikeRef, bannedForViolationsRef,
                   strikeBans, violationBans, recorded, submitted>>
    /\ UNCHANGED <<lastOp, avars, gvars, wvars, svars, bvars, loopState>>

\* StudyApp replaces the step by the blocked screen (a ban for violations) or
\* by the invalidated screen (a final strike): EditorView unmounts and its
\* timeouts are cleared
EditorReplaced(byStrike) ==
    /\ EditorMounted
    /\ blocked' = IF byStrike THEN blocked ELSE "banned"
    /\ finalStrike' = byStrike
    /\ countdownTimer' = -1
    /\ graceTimer' = -1
    /\ UNCHANGED <<timeRemaining, graceTimeRemaining, timeoutHandledRef,
                   graceTimeoutHandledRef, wordCount, showConfirmation, onNextCalls>>
    /\ UNCHANGED <<step, totalViolations, bannedForStrikeRef, bannedForViolationsRef,
                   strikeBans, violationBans, recorded, submitted>>
    /\ UNCHANGED <<opts, enabled, now, lastActRef, lastNudgeRef, nudgesRef, armedFinalRef,
                   hysteresisOkRef, score, showNudge, nudges, showFinalWarning,
                   worstScore, loopFinalStrike, hideTimer, framePending>>
    /\ UNCHANGED hist
    /\ UNCHANGED <<lastOp, gvars, wvars, svars, bvars, loopState>>

EditorNext ==
    \/ EditorClock
    \/ CountdownFires
    \/ GraceFires
    \/ \E wc \in WordCounts : EditorType(wc)
    \/ \E open \in BOOLEAN : EditorConfirmation(open)
    \/ EditorSubmit
    \/ \E byStrike \in BOOLEAN : EditorReplaced(byStrike)

\* time passes and a due timeout fires
SpecEditor ==
    /\ EditorInit
    /\ [][EditorNext]_vars
    /\ WF_vars(EditorClock)
    /\ WF_vars(CountdownFires)
    /\ WF_vars(GraceFires)

----------------------------------------------------------------------------
(* Boot of StudyApp (src/website/src/App.tsx, lines 2199-2263) with          *)
(* checkParticipantStatus, assignSimpleRandom, ensureParticipant,            *)
(* startSession and banParticipant, for the page loads of one Prolific ID.   *)
(* boot[i] is the page load i: pc its position in init(), rowAtStart the     *)
(* participants row when init() began, lookup what checkParticipantStatus    *)
(* got, blocked the value given to setBlocked, session whether startSession  *)
(* inserted a row for it.                                                    *)

Loads == 1..MaxLoads

\* variant: an existing participant who is not banned may proceed
ParticipantStatus_Reuse(row) ==
    CASE row = "banned" -> "banned"
      [] OTHER -> "proceed"

\* checkParticipantStatus on a lookup that succeeded: the reason, or "proceed"
ParticipantStatus(row) ==
    CASE row = "none" -> "proceed"
      [] row = "banned" -> "banned"
      [] row = "active" -> "already_started"

\* the catch of init(): the value given to setBlocked for the error message
BlockedFor(message) ==
    IF message \in {"already_completed", "writing_started", "banned", "already_started"}
    THEN message
    ELSE "initialization_error"

BootInit ==
    /\ AttnStart([maxNudges |-> MaxNudgesOpt, finalThreshold |-> finalThresholdApp])
    /\ GuardParked
    /\ StudyStart("1")
    /\ WakeParked
    /\ OldHookParked
    /\ SnapshotParked
    /\ EditorParked
    /\ BootParked

\* the page is loaded and init() runs up to assignSimpleRandom
BootBegin(i) ==
    /\ boot[i].pc = "unloaded"
    /\ boot' = [boot EXCEPT ![i].pc = "lookup", ![i].rowAtStart = participants]
    /\ UNCHANGED <<participants, sessions>>
    /\ UNCHANGED <<lastOp, avars, gvars, ovars, wvars, svars, evars, loopState>>

\* the select of checkParticipantStatus returns (ok) or fails; assignSimpleRandom
\* throws the reason, init() catches it
BootLookup(i, ok) ==
    /\ boot[i].pc = "lookup"
    /\ LET status == IF ok THEN ParticipantStatus(participants) ELSE "proceed"
       IN  boot' = [boot EXCEPT
                       ![i].lookup = IF ok THEN participants ELSE "error",
                       ![i].pc = IF status = "proceed" THEN "ensure" ELSE "blocked",
                       ![i].blocked = IF status = "proceed" THEN "none"
                                      ELSE BlockedFor(status)]
    /\ UNCHANGED <<participants, sessions>>
    /\ UNCHANGED <<lastOp, avars, gvars, ovars, wvars, svars, evars, loopState>>

\* the select of ensureParticipant: a row or an error ends it, no row goes on
\* to the insert
BootEnsureSelect(i, ok) ==
    /\ boot[i].pc = "ensure"
    /\ boot' = [boot EXCEPT ![i].pc = IF ok /\ participants = "none" THEN "insert"
                                      ELSE "session"]
    /\ UNCHANGED <<participants, sessions>>
    /\ UNCHANGED <<lastOp, avars, gvars, ovars, wvars, svars, evars, loopState>>

\* the insert of ensureParticipant; prolific_id is the key of the table, an
\* insert for an existing row fails and is logged
BootEnsureInsert(i) ==
    /\ boot[i].pc = "insert"
    /\ participants' = IF participants = "none" THEN "active" ELSE participants
    /\ boot' = [boot EXCEPT ![i].pc = "session"]
    /\ UNCHANGED sessions
    /\ UNCHANGED <<lastOp, avars, gvars, ovars, wvars, svars, evars, loopState>>

\* startSession, then setMeta, setSessionId and setLoaded: the study runs
BootSession(i) ==
    /\ boot[i].pc = "session"
    /\ sessions' = sessions + 1
    /\ boot' = [boot EXCEPT ![i].pc = "running", ![i].session = TRUE]
    /\ UNCHANGED participants
    /\ UNCHANGED <<lastOp, avars, gvars, ovars, wvars, svars, evars, loopState>>

\* banParticipant called by a running study: update ... where prolific_id = id
BootBan(i) ==
    /\ boot[i].pc = "running"
    /\ participants = "active"
    /\ participants' = "banned"
    /\ UNCHANGED <<sessions, boot>>
    /\ UNCHANGED <<lastOp, avars, gvars, ovars, wvars, svars, evars, loopState>>

BootNext ==
    \E i \in Loads :
        \/ BootBegin(i)
        \/ \E ok \in BOOLEAN : BootLookup(i, ok)
        \/ \E ok \in BOOLEAN : BootEnsureSelect(i, ok)
        \/ BootEnsureInsert(i)
        \/ BootSession(i)
        \/ BootBan(i)

SpecBoot == BootInit /\ [][BootNext]_vars

----------------------------------------------------------------------------
(* Claims *)

\* C1: once the final warning has armed, finalStrike is set only if some frame
\* after the arming frame evaluated a score above finalThreshold + 0.08.
C1_StrikeOnlyAfterRecovery == finalStrike => recoveredAfterArm

\* C2: finalStrike is false in every state in which the final warning has not
\* armed, and once true it stays true for as long as monitoring stays enabled.
C2_StrikeArmedAndSticky ==
    /\ [](finalStrike => (armedFinalRef /\ showFinalWarning))
    /\ [][(finalStrike /\ enabled') => finalStrike']_vars

C2_Witness ==
    /\ finalStrike
    /\ lastOp = "frame"
    /\ score = Scale
    /\ lastActRef > lastEmit

\* C3: within one monitoring session the strike emission is executed at most once.
C3_StrikeEmittedAtMostOnce == strikeEmits <= 1

\* C4: the nudge counter never exceeds maxNudges, for every maxNudges >= 0.
C4_NudgesBounded == nudges <= opts.maxNudges /\ nudgesRef <= opts.maxNudges

C4_Witness ==
    /\ opts.maxNudges >= 1
    /\ nudges = opts.maxNudges
    /\ lastOp = "frame"
    /\ score < nudgeThreshold
    /\ now - lastNudgeRef > nudgeCooldownMs

\* C5: any two nudge emissions of one monitoring session are at least
\* nudgeCooldownMs apart.
C5_NudgeSpacing == minNudgeGap >= nudgeCooldownMs

C5_Witness == minNudgeGap < NoGap /\ nudges >= 2

\* C6: with maxNudges >= 1 the final warning is armed exactly when the nudge
\* counter equals maxNudges, it arms at most once per session, and once armed
\* it stays armed until monitoring is disabled.
C6_ArmedIffMaxNudges ==
    /\ [](opts.maxNudges >= 1 =>
            /\ armedFinalRef <=> (nudgesRef = opts.maxNudges)
            /\ showFinalWarning <=> (nudges = opts.maxNudges)
            /\ armCount <= 1)
    /\ [][(opts.maxNudges >= 1 /\ armedFinalRef /\ enabled')
            => (armedFinalRef' /\ showFinalWarning')]_vars

C6_Witness ==
    /\ armedFinalRef
    /\ armCount = 1
    /\ lastOp = "frame"
    /\ lastActRef > lastEmit

\* C7: after the final warning has armed, a recognized activity event followed
\* by uninterrupted inactivity (no further activity, monitoring stays enabled)
\* eventually sets finalStrike, when frames run at display rate: the event is
\* followed by a frame at score 1, and from that frame on the strike follows.
C7_ActivityThenIdleStrikes ==
    /\ (/\ enabled
        /\ armedFinalRef
        /\ lastOp \in ActivityEvents
        /\ lastActRef + StrikeIdleTable[opts.finalThreshold] <= MaxTime)
       ~> (\/ ~enabled
           \/ finalStrike
           \/ (lastOp = "frame" /\ lastActRef = now /\ score = Scale))
    /\ (/\ enabled
        /\ armedFinalRef
        /\ lastOp = "frame"
        /\ lastActRef = now
        /\ lastActRef + StrikeIdleTable[opts.finalThreshold] <= MaxTime)
       ~> (\/ ~enabled
           \/ finalStrike
           \/ lastOp \in ActivityEvents)

C7_Witness ==
    /\ opts.maxNudges = 2
    /\ opts.finalThreshold = finalThresholdApp
    /\ finalStrike
    /\ strikeEmits = 1
    /\ lastOp = "frame"
    /\ score < opts.finalThreshold
    /\ recoveredAfterArm
    /\ lastActRef > lastEmit
    /\ now = lastActRef + StrikeIdleTable[opts.finalThreshold]

\* C8: the first frame evaluated after monitoring becomes enabled yields
\* score 1 and worstScore 1 and emits no nudge.
C8_FirstFrameFresh ==
    (lastOp = "frame" /\ frameNo = 1) =>
        (score = Scale /\ worstScore = Scale /\ nudges = 0 /\ ~showNudge)

C10_ActivityResets ==
    lastOp \in ActivityEvents => (lastActRef = now /\ score = Scale)

C10_Witness ==
    /\ lastOp \in ActivityEvents
    /\ worstScore = minScore
    /\ armedFinalRef

\* C11: a frame yields score 1 while idle <= graceMs, the score is halved by
\* every further halfLifeMs of idle time (1 at 5000 ms, 0.5 at 20000 ms, 0.25
\* at 35000 ms), it is clamped at minScore, and no frame raises the score.
C11_DecayCurve ==
    /\ [](lastOp = "frame" =>
            LET idle == now - lastActRef
            IN  /\ idle <= graceMs => score = Scale
                /\ idle = 5000 => score = Scale
                /\ idle = 20000 => score = Scale \div 2
                /\ idle = 35000 => score = Scale \div 4
                /\ \A k \in 0..4 :
                       idle = graceMs + k * halfLifeMs => score = Scale \div (2^k)
                /\ idle > graceMs => (minScore <= score /\ score < Scale)
                /\ idle >= graceMs + 5 * halfLifeMs => score = minScore)
    /\ [][lastOp' = "frame" => score' <= score]_vars

C11_Witness ==
    /\ lastOp = "frame"
    /\ now - lastActRef = 35000
    /\ score = Scale \div 4
    /\ worstScore = score

ResumeOps == {"resume_click", "resume_fullscreen", "resume_wakelock", "resume_done"}

LossEvents == {"visibilitychange", "blur", "fullscreenchange"}

\* C12: the violation counter increases by exactly one per transition of the
\* predicate from compliant to non-compliant: never more violations than
\* transitions, and a loss the poll has raised the overlay for is counted.
C12_OneViolationPerLoss ==
    /\ violations <= lossCount
    /\ (lastOp = "poll" /\ needsAttention /\ lossCount >= 1) => violations >= 1

\* C13: a poll tick never changes the violation counter and never invokes
\* onViolation.
C13_PollKeepsCounter ==
    [][lastOp' = "poll" => (violations' = violations /\ called' # "onViolation")]_vars

C13_Witness ==
    /\ lastOp = "poll"
    /\ ~Compliant
    /\ needsAttention
    /\ ~suppressedRef
    /\ violations >= 1

\* C14 as stated: needsAttention becomes false only through resume() or the
\* developer suppression.
C14_ClearedOnlyByResume ==
    [][(needsAttention /\ ~needsAttention') =>
           (lastOp' = "resume_done" \/ suppressedRef')]_vars

\* C14 as amended: needsAttention becomes false only in a step that finds the
\* predicate compliant (resume(), the checkNow of an event handler, of the poll
\* or of an effect run) or through the developer suppression.
C14_ClearedOnlyWhenCompliant ==
    [][(needsAttention /\ ~needsAttention') => (Compliant' \/ suppressedRef')]_vars

C14_Witness ==
    /\ lastOp = "focus"
    /\ ~needsAttention
    /\ ~suppressedRef
    /\ violations >= 1
    /\ resumePc = "idle"

\* C15: while the guard is not suppressed, a visibilitychange, blur or
\* fullscreenchange event that finds the predicate false raises needsAttention
\* at once, and so does the next poll tick for a loss no event reported.
C15_LossRaisesOverlay ==
    (~suppressedRef /\ ~Compliant /\ lastOp \in (LossEvents \cup {"poll"}))
        => needsAttention

C15_Witness ==
    /\ lastOp = "poll"
    /\ needsAttention
    /\ ~suppressedRef
    /\ lossCount >= 1
    /\ violations = 0

\* C16: the final check of resume() clears needsAttention and invokes onResume
\* exactly when the predicate is then true, otherwise needsAttention is true and
\* onResume is not invoked; no step of resume() changes the violation counter
\* or invokes onViolation.
C16_ResumeChecksPredicate ==
    /\ [][lastOp' = "resume_done" =>
            /\ Compliant' => (~needsAttention' /\ called' = "onResume")
            /\ ~Compliant' => (needsAttention' /\ called' # "onResume")]_vars
    /\ [][lastOp' \in ResumeOps =>
            (violations' = violations /\ called' # "onViolation")]_vars

C16_Witness ==
    /\ lastOp = "resume_done"
    /\ needsAttention
    /\ requireFullscreen
    /\ ~fullscreenElement
    /\ visible /\ focused
    /\ violations >= 1

\* C17: once the guard is suppressed, needsAttention is false.
C17_SuppressedNeverNeedsAttention == suppressedRef => ~needsAttention

\* C18: after the guard is suppressed, blur, visibilitychange and
\* fullscreenchange events leave the violation counter unchanged and do not
\* invoke onViolation.
C18_SuppressedEventsNotCounted ==
    [][(suppressedRef /\ lastOp' \in LossEvents) =>
           (violations' = violations /\ called' # "onViolation")]_vars

C18_Witness ==
    /\ suppressedRef
    /\ lastOp = "blur"
    /\ ~Compliant
    /\ ~needsAttention

\* C19: once five key-downs lie less than 2000 ms apart in all, the guard is
\* suppressed; the suppressing step clears needsAttention and invokes onResume;
\* a key-down more than 2000 ms after the previous one does not suppress.
C19_FiveWithinWindowSuppress ==
    /\ []((Len(pressAges) = escapePresses /\ pressAges[escapePresses] < escapeWindowMs)
            => suppressedRef)
    /\ [][(~suppressedRef /\ suppressedRef') =>
            (~needsAttention' /\ called' = "onResume")]_vars
    /\ [][(lastOp' = "escape_key" /\ ~suppressedRef
            /\ Len(pressAges) >= escapePresses - 1 /\ pressAges[1] > escapeWindowMs)
            => ~suppressedRef']_vars

C19_Witness ==
    /\ suppressedRef
    /\ lastOp = "escape_key"
    /\ called = "onResume"
    /\ ~Compliant
    /\ Len(pressAges) = escapePresses
    /\ pressAges[escapePresses] = escapeWindowMs - GuardTickMs

C19_GapWitness ==
    /\ ~suppressedRef
    /\ lastOp = "escape_key"
    /\ escapeCount = 1
    /\ Len(pressAges) = escapePresses
    /\ pressAges[2] > escapeWindowMs

\* C20: the guard becomes suppressed only by a key-down that is the fifth
\* within 2000 ms.
C20_SuppressedOnlyWithinWindow ==
    [][(~suppressedRef /\ suppressedRef') =>
           (Len(pressAges') = escapePresses
            /\ pressAges'[escapePresses] <= escapeWindowMs)]_vars

\* C21: the developer suppression lasts for the remainder of the process:
\* once the guard is suppressed it stays suppressed, in the view in which the
\* escape sequence succeeded and in every later gated view.
C21_SuppressionPersists == [][suppressedRef => suppressedRef']_vars

\* C22: totalViolations equals the number of violations recorded by the guards
\* of all views so far, and it never decreases.
C22_TotalIsCumulative ==
    /\ [](totalViolations = recorded)
    /\ [][totalViolations' >= totalViolations]_vars

\* C23 as stated: while finalStrike is true a ban has been requested exactly
\* once for it and the invalidated screen is shown; from then on the step does
\* not change, onNext is not invoked and no submission is inserted.
C23_StrikeInvalidates ==
    /\ [](finalStrike => (strikeBans = 1 /\ CurrentScreen = "invalidated"))
    /\ [][finalStrike => (step' = step /\ lastOp' # "next_step" /\ ~submitted')]_vars

\* C23 as amended: a ban is requested for the strike exactly once; the
\* invalidated screen is shown unless the session is already blocked for
\* violations, in which case the blocked screen stays; either screen is
\* terminal: the step does not change, onNext is not invoked, no submission
\* is inserted and finalStrike stays true.
C23_StrikeTerminal ==
    /\ [](strikeBans <= 1 /\ (finalStrike <=> strikeBans = 1))
    /\ [](finalStrike =>
            /\ CurrentScreen = (IF blocked = "none" THEN "invalidated" ELSE "blocked")
            /\ ~guardMounted
            /\ ~submitted)
    /\ [][finalStrike =>
            (finalStrike' /\ step' = step /\ lastOp' # "next_step" /\ ~submitted'
             /\ blocked' = blocked)]_vars

C23_Witness ==
    /\ finalStrike
    /\ CurrentScreen = "invalidated"
    /\ step = "4"
    /\ strikeBans = 1
    /\ totalViolations >= 1

C23_BlockedWitness ==
    /\ finalStrike
    /\ blocked = "fullscreen_violations"
    /\ strikeBans = 1
    /\ violationBans = 1

\* C24: blocked becomes 'fullscreen_violations', with a ban, only when
\* totalViolations exceeds 5, at most once; the blocked screen is terminal;
\* at 5 or fewer violations no ban is requested for violations, whereas a
\* strike is always banned.
C24_BanOnlyAboveCeiling ==
    /\ [][blocked' # blocked =>
            (blocked' = "fullscreen_violations" /\ totalViolations' > violationCeiling
             /\ violationBans' = violationBans + 1)]_vars
    /\ [](/\ violationBans <= 1
          /\ violationBans = 1 <=> blocked = "fullscreen_violations"
          /\ totalViolations <= violationCeiling => violationBans = 0
          /\ finalStrike => strikeBans = 1)
    /\ [][blocked # "none" =>
            (blocked' = blocked /\ step' = step /\ totalViolations' = totalViolations
             /\ violationBans' = violationBans)]_vars

C24_Witness ==
    /\ blocked = "fullscreen_violations"
    /\ totalViolations = violationCeiling + 1
    /\ violationBans = 1
    /\ lastOp = "blur"
    /\ ~guardMounted

\* C25: when a guard instance unmounts the document is taken out of
\* fullscreen, and after the unmount no handler and no poll of the instance runs.
C25_UnmountCleansUp ==
    /\ lastOp = "unmount" => ~fullscreenElement
    /\ ~guardMounted =>
           lastOp \notin {"blur", "focus", "visibilitychange", "fullscreenchange",
                          "poll", "effect", "escape_key"}

\* C26: after the unmount of a guard instance no wake lock is held and none
\* is acquired, whatever the order in which requests and releases settle.
C26_WakeLockScoped ==
    /\ [](~guardMounted => heldLocks = {})
    /\ [][~guardMounted => issued' = issued]_vars

\* C27: once the monitored phase has stopped no frame and no auto-hide timer
\* callback of the scorer runs, and no such callback is pending.
C27_NoCallbackAfterPhase ==
    ~enabled => (~hideTimer /\ lastOp # "frame" /\ lastOp # "hide_nudge")

\* C28: in every state the orchestrator can read (the snapshot stored at the
\* end of the editor step is a copy of one), finalStrike implies
\* showFinalWarning, showFinalWarning holds exactly when nudges = maxNudges
\* (maxNudges >= 1, as the orchestrator passes), nudges <= maxNudges and
\* worstScore <= score <= 1.
C28_AttentionConsistent ==
    /\ finalStrike => showFinalWarning
    /\ opts.maxNudges >= 1 => (showFinalWarning <=> nudges = opts.maxNudges)
    /\ nudges <= opts.maxNudges
    /\ worstScore <= score
    /\ score <= Scale

C28_Witness ==
    /\ finalStrike
    /\ showFinalWarning
    /\ opts.finalThreshold = finalThresholdApp
    /\ opts.maxNudges = MaxNudgesOpt
    /\ worstScore < score
    /\ score < Scale

\* C29: the score lies between minScore and 1, and a frame that runs right
\* after monitoring was enabled, before any time has passed in the phase,
\* leaves the score at 1.
C29_ScoreContinuous ==
    /\ [](minScore <= score /\ score <= Scale)
    /\ [][(lastOp = "enable" /\ lastOp' = "frame") => score' = Scale]_vars

\* C30: while monitoring stays enabled worstScore never increases; it is 1
\* when the phase starts, every frame sets it to the minimum of its previous
\* value and the score the frame evaluated, and activity events leave it alone.
C30_WorstIsRunningMin ==
    /\ [][(enabled /\ enabled') => worstScore' <= worstScore]_vars
    /\ [][lastOp' = "enable" => worstScore' = Scale]_vars
    /\ [][lastOp' = "frame" =>
            worstScore' = (IF score' < worstScore THEN score' ELSE worstScore)]_vars
    /\ [][lastOp' \in ActivityEvents => worstScore' = worstScore]_vars

C30_Witness ==
    /\ lastOp \in ActivityEvents
    /\ score = Scale
    /\ worstScore < nudgeThreshold
    /\ worstScore > minScore
    /\ nudges = 0

\* C31: finalStrike is set only if a recognized activity occurred after the
\* final warning armed, and the frame that arms the final warning leaves the
\* hysteresis gate closed.
C31_NoStrikeWithoutActivity ==
    /\ finalStrike => lastActRef >= lastEmit
    /\ (lastOp = "frame" /\ armedFinalRef /\ lastEmit = now /\ ~finalStrike)
           => ~hysteresisOkRef

\* C32: a frame evaluated exactly nudgeCooldownMs after the previous nudge,
\* with the score below nudgeThreshold, the budget not used up, unarmed and
\* unstruck, emits the next nudge.
C32_NudgeAtCooldown ==
    [][(/\ lastOp' = "frame"
        /\ lastEmit >= 0
        /\ now - lastEmit = nudgeCooldownMs
        /\ score' < nudgeThreshold
        /\ nudgesRef < opts.maxNudges
        /\ ~armedFinalRef
        /\ ~finalStrike /\ ~loopFinalStrike)
       => (nudges' = nudgesRef + 1 /\ lastEmit' = now)]_vars

\* C33: a keydown with ctrl, alt or meta held leaves the last-activity
\* timestamp, the score and all other scorer state unchanged.
C33_ModifierKeyIgnored ==
    [][lastOp' = "keydown_modifier" =>
           (/\ lastActRef' = lastActRef
            /\ state' = state
            /\ loopFinalStrike' = loopFinalStrike
            /\ hideTimer' = hideTimer
            /\ enabled' = enabled)]_vars

C33_Witness ==
    /\ lastOp = "keydown_modifier"
    /\ enabled
    /\ score < nudgeThreshold
    /\ now - lastActRef > graceMs

\* C34: with maxNudges = 0 no nudge is emitted, the final warning never arms
\* and finalStrike is never set, whatever the idle time.
C34_ZeroNudgesInert ==
    opts.maxNudges = 0 =>
        /\ nudges = 0 /\ nudgesRef = 0
        /\ ~showNudge /\ ~hideTimer
        /\ ~armedFinalRef /\ ~showFinalWarning
        /\ ~finalStrike
        /\ lastEmit = -1

C34_Witness ==
    /\ opts.maxNudges = 0
    /\ lastOp = "frame"
    /\ score = minScore
    /\ now - lastActRef >= MaxTime - TickMs

C36_MountRecordsNothing ==
    /\ (lastOp = "mount" =>
            (needsAttention = ~Compliant /\ violations = 0 /\ called = "none"))
    /\ [][(violations' # violations \/ called' = "onViolation")
              => lastOp' \in LossEvents]_vars

C36_Witness ==
    /\ lastOp \in {"poll", "effect"}
    /\ lossCount = 0
    /\ ~Compliant
    /\ needsAttention
    /\ violations = 0

\* C40: the older useWritingAttention keeps nudges <= maxNudges and has the
\* final warning armed whenever nudges has reached maxNudges, for every
\* maxNudges >= 1.
C40_OldNudgesBounded ==
    /\ nudges <= opts.maxNudges
    /\ (nudges >= opts.maxNudges) => (armedFinalRef /\ showFinalWarning)

\* C38: at most one flush timer is pending, and every snapshot pushed by
\* saveSnapshot is either still queued with the flush timer pending or has
\* been handed to exactly one insert call, never to two.
C38_SnapshotHandedOnce ==
    /\ Cardinality(pendingTimers) <= 1
    /\ pendingTimers = (IF flushTimer = 0 THEN {} ELSE {flushTimer})
    /\ snapshotBuffer # <<>> => flushTimer # 0
    /\ \A id \in 1..appended :
           /\ Occurrences(BatchIds(insertCalls), id) <= 1
           /\ Occurrences(BatchIds(insertCalls), id) + Occurrences(snapshotBuffer, id) = 1

C38_Witness ==
    /\ appended = MaxSnapshots
    /\ snapshotBuffer = <<>>
    /\ \E i \in 1..Len(insertCalls) :
           insertCalls[i].by = "timer" /\ Len(insertCalls[i].batch) >= 2
    /\ \E i \in 1..Len(insertCalls) : insertCalls[i].by = "final"

\* C39: the editor stage ends unless the session is invalidated or blocked,
\* and the expiry of the writing countdown and the expiry of the grace
\* countdown together call onNext at most once.
C39_EditorEnds ==
    /\ [](Cardinality({i \in 1..Len(onNextCalls) :
                           onNextCalls[i] \in {"timer", "grace"}}) <= 1)
    /\ <>(step # "4" \/ blocked # "none" \/ finalStrike)

\* C37: an initialization that begins when the participants row of its
\* Prolific ID exists and whose participant lookup succeeds ends blocked, as
\* 'banned' if the row is banned and as 'already_started' otherwise; it
\* renders no study step and starts no session.
C37_ReentryBlocked ==
    \A i \in Loads :
        (boot[i].rowAtStart # "none" /\ boot[i].lookup \notin {"none", "error"}) =>
            /\ boot[i].pc = "blocked"
            /\ boot[i].blocked = (IF boot[i].lookup = "banned" THEN "banned"
                                  ELSE "already_started")
            /\ ~boot[i].session

C37_Witness ==
    \E i, j, k \in Loads :
        /\ boot[i].pc = "running"
        /\ boot[j].rowAtStart = "active" /\ boot[j].blocked = "already_started"
        /\ boot[k].rowAtStart # "none" /\ boot[k].blocked = "banned"
        /\ sessions = 1

====
